---- MODULE Spec2Model ----
(***************************************************************************)
(* A model of the GPU resource layer of the rendering demo: the vertex and *)
(* index buffer wrappers, the vertex array object, the shape factories'    *)
(* VAO assembly and the ShapeFactoryManager cache.                         *)
(*                                                                         *)
(* The graphics context is modelled by the part of its state the wrappers  *)
(* touch: the allocated buffer and vertex-array names, the current         *)
(* bindings (the element-array binding belongs to the current VAO), and    *)
(* the attribute pointers of each VAO.  What the context may do on its own *)
(* (which unused name a glGen* call hands out, whether glGetError reports  *)
(* an error at a CheckGLError site, what a null dereference does) is an    *)
(* input of each operation, the record env.                                *)
(*                                                                         *)
(* Every operation of the code is an operator from a machine record m to   *)
(* the machine record after it, so that the code's calls compose; a thrown *)
(* exception is m.exc (its what() text, <<>> when none), and the GL calls  *)
(* the operation issued are m.calls.                                       *)
(***************************************************************************)
EXTENDS Integers, Sequences, FiniteSets, TLC

VARIABLES gl, vbs, ibs, vas, shapeCache, crashed, last, vertexList, indexList,
          objects, activeIndex

vars == <<gl, vbs, ibs, vas, shapeCache, crashed, last, vertexList, indexList,
          objects, activeIndex>>

\* ------------------------------------------------------------------ bounds
\* GL object names are 1..MaxName (0 is "no object").
MaxName == 6

NULL == 0
Names == 1..MaxName

SetMin(S) == CHOOSE x \in S : \A y \in S : x <= y
SetMax(S) == CHOOSE x \in S : \A y \in S : y <= x

\* ------------------------------------------------ the environment's inputs
GLErrors == {"GL_INVALID_OPERATION", "GL_OUT_OF_MEMORY", "GL_CONTEXT_LOST"}

\* The inputs of an operation with n fallible GL steps: failIn = k > 0 makes the
\* k-th of them fail (a glGen* yields no name, glGetError reports code), pick
\* chooses among the unused names, ub is the outcome of undefined behaviour.
EnvsOf(n, codes, picks, ubs) ==
    {e \in [failIn : 0..n, code : codes \cup {"GL_NO_ERROR"}, pick : picks, ub : ubs] :
         e.failIn = 0 <=> e.code = "GL_NO_ERROR"}

Envs(n, picks, ubs) == EnvsOf(n, GLErrors, picks, ubs)

\* An operation that asks the environment nothing.
NoEnv == Envs(0, {0}, {"proceed"})

\* An operation that generates names and checks for errors, n steps in all.
GenEnvs(n) == Envs(n, {0, 1}, {"proceed"})

\* Create asks the environment nothing when it refuses its arguments.
CreateEnvs(data, size) == IF data = "null" \/ size <= 0 THEN NoEnv ELSE GenEnvs(2)

\* ------------------------------------------------------------- exceptions
GrafException(message) == message

BufferException(message) == <<"Buffer Error: ">> \o message

Throw(m, what) == [m EXCEPT !.exc = what]

Crash(m) == [m EXCEPT !.crashed = TRUE]

Stopped(m) == m.crashed \/ m.exc # <<>>

\* --------------------------------------------------- the graphics context
GLCall(fn, tgt, x, y, z, w) == [fn |-> fn, tgt |-> tgt, x |-> x, y |-> y, z |-> z, w |-> w]

Issue(m, c) == [m EXCEPT !.calls = Append(@, c)]

\* Whether the fallible step the context is about to take fails.
Fails(m) == m.env.failIn = 1

\* One fallible step of the context has passed; m.fault notes that it failed.
Tick(m) == [m EXCEPT !.env.failIn = IF @ > 0 THEN @ - 1 ELSE 0,
                     !.fault = IF m.env.failIn = 1 THEN 1 ELSE @]

PickName(free, pick) == IF pick = 0 THEN SetMin(free) ELSE SetMax(free)

\* glGenBuffers(1, &id): m.ret is the name written to id, 0 when none was made.
glGenBuffers(m) ==
    LET free == Names \ m.gl.buffers
        name == IF Fails(m) \/ free = {} THEN 0 ELSE PickName(free, m.env.pick)
        m1   == Issue(Tick(m), GLCall("glGenBuffers", "", name, 0, 0, 0))
    IN  [m1 EXCEPT !.ret = name,
                   !.gl.buffers = IF name = 0 THEN @ ELSE @ \cup {name}]

\* glBindBuffer(target, id); the element-array binding is state of the current VAO.
glBindBuffer(m, target, id) ==
    LET m1 == Issue(m, GLCall("glBindBuffer", target, id, 0, 0, 0))
    IN  IF id # 0 /\ id \notin m.gl.buffers
        THEN m1
        ELSE IF target = "GL_ARRAY_BUFFER"
             THEN [m1 EXCEPT !.gl.array = id]
             ELSE [m1 EXCEPT !.gl.element[m.gl.vao] = id]

glBufferData(m, target, size) ==
    Issue(m, GLCall("glBufferData", target, size, 0, 0, 0))

\* glDeleteBuffers(1, &id): unused names are ignored; a deleted buffer is
\* unbound from the current context's binding points.
glDeleteBuffers(m, id) ==
    LET m1 == Issue(m, GLCall("glDeleteBuffers", "", id, 0, 0, 0))
    IN  IF id \notin m.gl.buffers
        THEN m1
        ELSE [m1 EXCEPT !.gl.buffers = @ \ {id},
                        !.gl.array = IF @ = id THEN 0 ELSE @,
                        !.gl.element[m.gl.vao] = IF @ = id THEN 0 ELSE @]

errorMsg(error) ==
    CASE error = "GL_INVALID_ENUM"      -> "Invalid enum"
      [] error = "GL_INVALID_VALUE"     -> "Invalid value"
      [] error = "GL_INVALID_OPERATION" -> "Invalid operation"
      [] error = "GL_OUT_OF_MEMORY"     -> "Out of memory"
      [] OTHER                          -> "Unknown error"

CheckGLError(m, operation) ==
    LET m1 == Tick(m)
    IN  IF Fails(m)
        THEN Throw(m1, GrafException(<<operation, " failed: ", errorMsg(m.env.code)>>))
        ELSE m1

\* ----------------------------------------------------------- VertexBuffer
VertexBuffer_Create(m, b, data, size) ==
    IF data = "null" \/ size <= 0
    THEN Throw(m, BufferException(<<"Invalid vertex buffer data or size">>))
    ELSE LET g  == glGenBuffers(m)
             m1 == [g EXCEPT !.vbs[b].m_id = g.ret]
         IN  IF m1.vbs[b].m_id = 0
             THEN Throw(m1, BufferException(<<"Failed to generate vertex buffer">>))
             ELSE CheckGLError(
                      glBufferData(glBindBuffer(m1, "GL_ARRAY_BUFFER", m1.vbs[b].m_id),
                                   "GL_ARRAY_BUFFER", size),
                      "Vertex Buffer Creation")

VertexBuffer_Bind(m, b) == glBindBuffer(m, "GL_ARRAY_BUFFER", m.vbs[b].m_id)

VertexBuffer_Unbind(m, b) == glBindBuffer(m, "GL_ARRAY_BUFFER", 0)

VertexBuffer_Release(m, b) ==
    IF m.vbs[b].m_id # 0
    THEN [glDeleteBuffers(m, m.vbs[b].m_id) EXCEPT !.vbs[b].m_id = 0]
    ELSE m

\* ------------------------------------------------------------ IndexBuffer
IndexBuffer_Bind(m, b) == glBindBuffer(m, "GL_ELEMENT_ARRAY_BUFFER", m.ibs[b].m_id)

\* IndexBuffer::Create were it to validate its arguments only after glGenBuffers.
IndexBuffer_Create_LateCheck(m, b, data, size) ==
    LET g  == glGenBuffers(m)
        m1 == [g EXCEPT !.ibs[b].m_id = g.ret]
    IN  IF data = "null" \/ size <= 0
        THEN Throw(m1, BufferException(<<"Invalid buffer data or size">>))
        ELSE IF m1.ibs[b].m_id = 0
             THEN Throw(m1, BufferException(<<"Failed to generate index buffer">>))
             ELSE LET m2 == CheckGLError(
                                glBufferData(glBindBuffer(m1, "GL_ELEMENT_ARRAY_BUFFER",
                                                          m1.ibs[b].m_id),
                                             "GL_ELEMENT_ARRAY_BUFFER", size),
                                "Index Buffer Creation")
                  IN  IF Stopped(m2) THEN m2
                      ELSE [m2 EXCEPT !.ibs[b].m_IndexCount = size \div 4]

\* C++ int division truncates toward zero; size > 0 here.
IndexBuffer_Create(m, b, data, size) ==
    IF data = "null" \/ size <= 0
    THEN Throw(m, BufferException(<<"Invalid buffer data or size">>))
    ELSE LET g  == glGenBuffers(m)
             m1 == [g EXCEPT !.ibs[b].m_id = g.ret]
         IN  IF m1.ibs[b].m_id = 0
             THEN Throw(m1, BufferException(<<"Failed to generate index buffer">>))
             ELSE LET m2 == CheckGLError(
                                glBufferData(glBindBuffer(m1, "GL_ELEMENT_ARRAY_BUFFER",
                                                          m1.ibs[b].m_id),
                                             "GL_ELEMENT_ARRAY_BUFFER", size),
                                "Index Buffer Creation")
                  IN  IF Stopped(m2) THEN m2
                      ELSE [m2 EXCEPT !.ibs[b].m_IndexCount = size \div 4]

IndexBuffer_getIndexCount(m, b) == m.ibs[b].m_IndexCount

\* IndexBuffer::Release were it to delete the buffer and keep the handle.
IndexBuffer_Release_NoReset(m, b) ==
    IF m.ibs[b].m_id # 0
    THEN glDeleteBuffers(m, m.ibs[b].m_id)
    ELSE m

IndexBuffer_Release(m, b) ==
    IF m.ibs[b].m_id # 0
    THEN [glDeleteBuffers(m, m.ibs[b].m_id) EXCEPT !.ibs[b].m_id = 0]
    ELSE m

IndexBuffer_Unbind(m, b) == glBindBuffer(m, "GL_ELEMENT_ARRAY_BUFFER", 0)

\* ------------------------------------------- the context's vertex arrays
\* glGenVertexArrays(1, &id): a new name starts with no element buffer and
\* no attribute pointers.
glGenVertexArrays(m) ==
    LET free == Names \ m.gl.arrays
        name == IF Fails(m) \/ free = {} THEN 0 ELSE PickName(free, m.env.pick)
        m1   == Issue(Tick(m), GLCall("glGenVertexArrays", "", name, 0, 0, 0))
    IN  IF name = 0
        THEN [m1 EXCEPT !.ret = 0]
        ELSE [m1 EXCEPT !.ret = name,
                        !.gl.arrays = @ \cup {name},
                        !.gl.element[name] = 0,
                        !.gl.attribs[name] = {},
                        !.gl.enabled[name] = {}]

glBindVertexArray(m, id) ==
    LET m1 == Issue(m, GLCall("glBindVertexArray", "", id, 0, 0, 0))
    IN  IF id # 0 /\ id \notin m.gl.arrays THEN m1 ELSE [m1 EXCEPT !.gl.vao = id]

glDeleteVertexArrays(m, id) ==
    LET m1 == Issue(m, GLCall("glDeleteVertexArrays", "", id, 0, 0, 0))
    IN  IF id \notin m.gl.arrays
        THEN m1
        ELSE [m1 EXCEPT !.gl.arrays = @ \ {id},
                        !.gl.vao = IF @ = id THEN 0 ELSE @,
                        !.gl.element[id] = 0,
                        !.gl.attribs[id] = {},
                        !.gl.enabled[id] = {}]

\* glVertexAttribPointer(index, size, GL_FLOAT, GL_FALSE, stride, pointer): the
\* pointer is recorded in the current VAO together with the buffer bound to
\* GL_ARRAY_BUFFER; a core-profile context (GLWindow::create) has no default VAO.
glVertexAttribPointer(m, index, size, stride, pointer) ==
    LET m1 == Issue(m, GLCall("glVertexAttribPointer", "GL_FLOAT", index, size, stride, pointer))
        v  == m.gl.vao
        r  == [index |-> index, size |-> size, stride |-> stride,
               pointer |-> pointer, buffer |-> m.gl.array]
    IN  IF v = 0
        THEN m1
        ELSE [m1 EXCEPT !.gl.attribs[v] = {a \in @ : a.index # index} \cup {r}]

glEnableVertexAttribArray(m, index) ==
    LET m1 == Issue(m, GLCall("glEnableVertexAttribArray", "", index, 0, 0, 0))
        v  == m.gl.vao
    IN  IF v = 0 THEN m1 ELSE [m1 EXCEPT !.gl.enabled[v] = @ \cup {index}]

\* glDrawElements(mode, count, GL_UNSIGNED_INT, 0): the call is logged with the
\* element buffer it reads (that of the current VAO) and the current VAO.
glDrawElements(m, mode, count, offset) ==
    Issue(m, GLCall("glDrawElements", mode, count, offset, m.gl.element[m.gl.vao], m.gl.vao))

\* ------------------------------------------------------ VertexArrayObject
AttributeTypes == {"Position", "Color", "Normal", "Texture"}

SizeofFloat == 4

\* getTypeSize were it to take a Color for three floats.
getTypeSize_ColorAsVec3(type) ==
    CASE type \in {"Position", "Normal", "Color"} -> SizeofFloat * 3
      [] type = "Texture"                         -> SizeofFloat * 2
      [] OTHER                                    -> 0

getTypeSize(type) ==
    CASE type \in {"Position", "Normal"} -> SizeofFloat * 3
      [] type = "Color"                  -> SizeofFloat * 4
      [] type = "Texture"                -> SizeofFloat * 2
      [] OTHER                           -> 0

VertexArrayObject_Create(m, v) ==
    LET g  == glGenVertexArrays(m)
        m1 == [g EXCEPT !.vas[v].m_id = g.ret]
    IN  IF m1.vas[v].m_id = 0
        THEN Throw(m1, BufferException(<<"Failed to generate Vertex Array Object">>))
        ELSE LET m2 == CheckGLError(m1, "VAO generation")
             IN  IF Stopped(m2) THEN m2 ELSE [m2 EXCEPT !.vas[v].m_stride = 0]

VertexArrayObject_Bind(m, v) == glBindVertexArray(m, m.vas[v].m_id)

\* A member call through a null mp_ib / mp_vb is undefined behaviour: the
\* build either runs the callee (which does not read its object) or stops.
\* Unbind were it to unbind the index buffer while the VAO is still current.
VertexArrayObject_Unbind_IndexFirst(m, v) ==
    LET m1 == IF m.vas[v].mp_ib = NULL
              THEN IF m.env.ub = "crash" THEN Crash(m)
                   ELSE glBindBuffer(m, "GL_ELEMENT_ARRAY_BUFFER", 0)
              ELSE IndexBuffer_Unbind(m, m.vas[v].mp_ib)
        m2 == IF m1.crashed THEN m1 ELSE glBindVertexArray(m1, 0)
    IN  IF m2.crashed THEN m2
        ELSE IF m2.vas[v].mp_vb = NULL
             THEN IF m2.env.ub = "crash" THEN Crash(m2)
                  ELSE glBindBuffer(m2, "GL_ARRAY_BUFFER", 0)
             ELSE VertexBuffer_Unbind(m2, m2.vas[v].mp_vb)

VertexArrayObject_Unbind(m, v) ==
    LET m1 == glBindVertexArray(m, 0)
        m2 == IF m1.vas[v].mp_ib = NULL
              THEN IF m1.env.ub = "crash" THEN Crash(m1)
                   ELSE glBindBuffer(m1, "GL_ELEMENT_ARRAY_BUFFER", 0)
              ELSE IndexBuffer_Unbind(m1, m1.vas[v].mp_ib)
    IN  IF m2.crashed THEN m2
        ELSE IF m2.vas[v].mp_vb = NULL
             THEN IF m2.env.ub = "crash" THEN Crash(m2)
                  ELSE glBindBuffer(m2, "GL_ARRAY_BUFFER", 0)
             ELSE VertexBuffer_Unbind(m2, m2.vas[v].mp_vb)

VertexArrayObject_SetVertexBuffer(m, v, p_vb) ==
    IF p_vb = NULL
    THEN Throw(m, BufferException(<<"Null vertex buffer">>))
    ELSE LET m0 == [m EXCEPT !.vas[v].mp_vb = p_vb]
             m1 == CheckGLError(VertexBuffer_Bind(VertexArrayObject_Bind(m0, v), p_vb),
                                "Vertex buffer binding")
         IN  IF m1.exc = <<>>
             THEN m1
             ELSE LET m2 == VertexArrayObject_Unbind([m1 EXCEPT !.exc = <<>>], v)
                  IN  IF m2.crashed THEN m2
                      ELSE Throw(m2, BufferException(<<"Failed to set vertex buffer: ">> \o m1.exc))

\* Draw were it to draw without looking for the index buffer first.
VertexArrayObject_Draw_NoGuard(m, v) ==
    CheckGLError(
        glDrawElements(m, "GL_TRIANGLES",
                       IF m.vas[v].mp_ib = NULL THEN 0
                       ELSE IndexBuffer_getIndexCount(m, m.vas[v].mp_ib), 0),
        "Draw call")

VertexArrayObject_Draw(m, v) ==
    IF m.vas[v].mp_ib = NULL
    THEN Throw(m, BufferException(<<"No index buffer bound for drawing">>))
    ELSE CheckGLError(
             glDrawElements(m, "GL_TRIANGLES", IndexBuffer_getIndexCount(m, m.vas[v].mp_ib), 0),
             "Draw call")

VertexArrayObject_SetIndexBuffer(m, v, p_ib) ==
    IF p_ib = NULL
    THEN Throw(m, BufferException(<<"Null index buffer">>))
    ELSE LET m0 == [m EXCEPT !.vas[v].mp_ib = p_ib]
             m1 == CheckGLError(IndexBuffer_Bind(VertexArrayObject_Bind(m0, v), p_ib),
                                "Index buffer binding")
         IN  IF m1.exc = <<>>
             THEN m1
             ELSE LET m2 == VertexArrayObject_Unbind([m1 EXCEPT !.exc = <<>>], v)
                  IN  IF m2.crashed THEN m2
                      ELSE Throw(m2, BufferException(<<"Failed to set index buffer: ">> \o m1.exc))

\* m_stride is an unsigned int; with at most MaxAttrs attributes of at most 16
\* bytes it stays far below 2^32, so the sum never wraps here.
VertexArrayObject_AddVertexAttribute(m, v, type) ==
    [m EXCEPT !.vas[v].m_attributes = Append(@, type),
              !.vas[v].m_stride = @ + getTypeSize(type)]

RECURSIVE ActivateLoop(_, _, _, _)
\* The body of the for loop of ActivateAttributes, from index i on.
ActivateLoop(m, v, i, location) ==
    IF i >= Len(m.vas[v].m_attributes)
    THEN m
    ELSE LET attributeSize == getTypeSize(m.vas[v].m_attributes[i + 1])
             elementCount  == attributeSize \div SizeofFloat
             m1 == CheckGLError(
                       glVertexAttribPointer(m, i, elementCount, m.vas[v].m_stride, location),
                       "Vertex attribute setup")
         IN  IF Stopped(m1) THEN m1
             ELSE LET m2 == CheckGLError(glEnableVertexAttribArray(m1, i),
                                         "Vertex attribute enable")
                  IN  IF Stopped(m2) THEN m2
                      ELSE ActivateLoop(m2, v, i + 1, location + attributeSize)

VertexArrayObject_ActivateAttributes(m, v) ==
    IF m.vas[v].m_attributes = <<>>
    THEN Throw(m, BufferException(<<"No vertex attributes specified">>))
    ELSE ActivateLoop(m, v, 0, 0)

\* mp_vb->Release() reads its object: through a null mp_vb the build stops, or
\* goes on having released nothing.
\* Release were it to release the index buffer as well.
VertexArrayObject_Release_BothBuffers(m, v) ==
    LET m1 == glDeleteVertexArrays(m, m.vas[v].m_id)
        m2 == IF m1.vas[v].mp_vb = NULL
              THEN IF m1.env.ub = "crash" THEN Crash(m1) ELSE m1
              ELSE VertexBuffer_Release(m1, m1.vas[v].mp_vb)
    IN  IF m2.crashed \/ m2.vas[v].mp_ib = NULL
        THEN m2
        ELSE IndexBuffer_Release(m2, m2.vas[v].mp_ib)

VertexArrayObject_Release(m, v) ==
    LET m1 == glDeleteVertexArrays(m, m.vas[v].m_id)
    IN  IF m1.vas[v].mp_vb = NULL
        THEN IF m1.env.ub = "crash" THEN Crash(m1) ELSE m1
        ELSE VertexBuffer_Release(m1, m1.vas[v].mp_vb)

\* std::make_shared<T>() value-initialises T: every member starts as zero.
NewVertexBuffer == [m_id |-> 0]

NewIndexBuffer == [m_id |-> 0, m_IndexCount |-> 0]

NewVertexArrayObject ==
    [m_id |-> 0, mp_vb |-> NULL, mp_ib |-> NULL, m_stride |-> 0, m_attributes |-> <<>>]

\* ------------------------------------------------------------ ShapeFactory
\* A Vertex is [position |-> <<x, y, z>>, texture |-> <<s, t>>].  Coordinates
\* are kept in halves (the integer 2c stands for the float c), which holds every
\* coordinate of the square, cube, pyramid and frustum exactly; a coordinate of
\* the circle is the trigonometric term it is computed from.
SizeofVertex == 20

SizeofUnsignedInt == 4

\* VertexList(n): n value-initialised vertices.
VertexList(n) == [i \in 1..n |-> [position |-> <<0, 0, 0>>, texture |-> <<0, 0>>]]

QUAD_TEXTURE_COORDS == <<<<0, 2>>, <<2, 2>>, <<2, 0>>, <<0, 0>>>>

TRIANGLE_TEXTURE_COORDS == <<<<1, 2>>, <<0, 0>>, <<2, 0>>>>

\* A vertex list under construction: g.exc is what a helper threw.
\* g.oob tells that a slot outside the list was accessed.
Geometry(list) == [vertices |-> list, exc |-> <<>>, oob |-> FALSE]

SetTextureCoords(vertex, s, t) == [vertex EXCEPT !.texture = <<s, t>>]

\* The range check were it to refuse a range that ends at the list's end.
ExceedsSize_RefusesExactFit(offset, count, size) ==
    offset + count < 0 \/ offset + count >= size

\* offset + size() is evaluated in unsigned 64-bit arithmetic: a negative sum
\* wraps to a value above every list size.
ExceedsSize(offset, count, size) == offset + count < 0 \/ offset + count > size

\* A helper whose range check passed accesses the slots offset .. offset+count-1
\* (0-based); slot k is element k + 1 of the sequence.  With a negative offset
\* the slots below 0 (huge as unsigned indices) lie outside the list.
AccessesOutside(offset, count) == offset < 0 /\ count > 0

AssignTextureCoords(g, offset, coords) ==
    IF ExceedsSize(offset, Len(coords), Len(g.vertices))
    THEN [g EXCEPT !.exc = GrafException(<<"Texture coords size exceeds vertex list size">>)]
    ELSE [g EXCEPT !.oob = @ \/ AccessesOutside(offset, Len(coords)),
                   !.vertices =
             [k \in DOMAIN g.vertices |->
                 IF k - 1 - offset \in 0..(Len(coords) - 1)
                 THEN SetTextureCoords(g.vertices[k], coords[k - offset][1], coords[k - offset][2])
                 ELSE g.vertices[k]]]

\* DefineFace were it to write a quad's last two corners in exchanged slots.
DefineFace_LastTwoExchanged(g, offset, positions, vertexIndices, textureCoords) ==
    IF g.exc # <<>> THEN g
    ELSE IF ExceedsSize(offset, Len(vertexIndices), Len(g.vertices))
    THEN [g EXCEPT !.exc = GrafException(<<"Vertex indices exceed vertex list size">>)]
    ELSE AssignTextureCoords(
             [g EXCEPT !.oob = @ \/ AccessesOutside(offset, Len(vertexIndices)),
                       !.vertices =
                 [k \in DOMAIN g.vertices |->
                     IF k - 1 - offset \in 0..(Len(vertexIndices) - 1)
                     THEN [g.vertices[k] EXCEPT
                              !.position =
                                  positions[vertexIndices[
                                      IF Len(vertexIndices) = 4 /\ k - offset \in {3, 4}
                                      THEN 7 - (k - offset) ELSE k - offset] + 1]]
                     ELSE g.vertices[k]]],
             offset, textureCoords)

DefineFace(g, offset, positions, vertexIndices, textureCoords) ==
    IF g.exc # <<>> THEN g
    ELSE IF ExceedsSize(offset, Len(vertexIndices), Len(g.vertices))
    THEN [g EXCEPT !.exc = GrafException(<<"Vertex indices exceed vertex list size">>)]
    ELSE AssignTextureCoords(
             [g EXCEPT !.oob = @ \/ AccessesOutside(offset, Len(vertexIndices)),
                       !.vertices =
                 [k \in DOMAIN g.vertices |->
                     IF k - 1 - offset \in 0..(Len(vertexIndices) - 1)
                     THEN [g.vertices[k] EXCEPT
                              !.position = positions[vertexIndices[k - offset] + 1]]
                     ELSE g.vertices[k]]],
             offset, textureCoords)

RECURSIVE FaceIndicesFrom_SecondTriangleFlipped(_, _, _, _)
\* The loop were the second triangle of a face wound 0-2-3.
FaceIndicesFrom_SecondTriangleFlipped(indices, i, faceCount, offset) ==
    IF i >= faceCount
    THEN indices
    ELSE FaceIndicesFrom_SecondTriangleFlipped(
             indices \o <<offset + i * 4, offset + i * 4 + 2, offset + i * 4 + 1,
                          offset + i * 4, offset + i * 4 + 2, offset + i * 4 + 3>>,
             i + 1, faceCount, offset)

RECURSIVE FaceIndicesFrom(_, _, _, _)
\* The for loop of GenerateFaceIndices from face i on.
FaceIndicesFrom(indices, i, faceCount, offset) ==
    IF i >= faceCount
    THEN indices
    ELSE FaceIndicesFrom(
             indices \o <<offset + i * 4, offset + i * 4 + 2, offset + i * 4 + 1,
                          offset + i * 4, offset + i * 4 + 3, offset + i * 4 + 2>>,
             i + 1, faceCount, offset)

GenerateFaceIndices(indices, faceCount, offset) == FaceIndicesFrom(indices, 0, faceCount, offset)

\* make_shared of the three objects: they are the newest of their heaps.
MakeShared(m) ==
    [m EXCEPT !.vas = Append(@, NewVertexArrayObject),
              !.vbs = Append(@, NewVertexBuffer),
              !.ibs = Append(@, NewIndexBuffer)]

\* The shared pointers made by the call go out of scope when it throws: the
\* objects are destroyed (no destructor releases their GL objects).
Unwind(m, before) ==
    [m EXCEPT !.vas = SubSeq(@, 1, Len(before.vas)),
              !.vbs = SubSeq(@, 1, Len(before.vbs)),
              !.ibs = SubSeq(@, 1, Len(before.ibs))]

\* The try block were it to add the texture attribute first.
SetupStatements_TextureFirst ==
    <<"Create", "SetVertexBuffer", "SetIndexBuffer", "AddVertexAttribute(Texture)",
      "AddVertexAttribute(Position)", "ActivateAttributes", "Unbind", "return">>

\* The statements of the try block of createVAOFromData, in order.
SetupStatements ==
    <<"Create", "SetVertexBuffer", "SetIndexBuffer", "AddVertexAttribute(Position)",
      "AddVertexAttribute(Texture)", "ActivateAttributes", "Unbind", "return">>

SetupStatement(m, statement, p_va, p_vb, p_ib) ==
    CASE statement = "Create" -> VertexArrayObject_Create(m, p_va)
      [] statement = "SetVertexBuffer" -> VertexArrayObject_SetVertexBuffer(m, p_va, p_vb)
      [] statement = "SetIndexBuffer" -> VertexArrayObject_SetIndexBuffer(m, p_va, p_ib)
      [] statement = "AddVertexAttribute(Position)" ->
             VertexArrayObject_AddVertexAttribute(m, p_va, "Position")
      [] statement = "AddVertexAttribute(Texture)" ->
             VertexArrayObject_AddVertexAttribute(m, p_va, "Texture")
      [] statement = "ActivateAttributes" -> VertexArrayObject_ActivateAttributes(m, p_va)
      [] statement = "Unbind" -> VertexArrayObject_Unbind(m, p_va)
      [] statement = "return" -> [m EXCEPT !.ret = p_va]

RECURSIVE RunSetup(_, _, _, _, _)
\* The statements run one after the other on the machine the one before left
\* (computed once, then named x); a throw or a crash skips the rest.
RunSetup(m, statements, p_va, p_vb, p_ib) ==
    IF statements = <<>>
    THEN m
    ELSE CHOOSE r \in
             {IF Stopped(x) THEN x
              ELSE RunSetup(SetupStatement(x, Head(statements), p_va, p_vb, p_ib),
                            Tail(statements), p_va, p_vb, p_ib) : x \in {m}} : TRUE

\* The try block of createVAOFromData.
WireVAO(m, p_va, p_vb, p_ib) == RunSetup(m, SetupStatements, p_va, p_vb, p_ib)

\* Its catch (const std::exception&) clause: what the block threw is wrapped.
CatchSetupFailure(m) ==
    CHOOSE r \in {IF x.crashed \/ x.exc = <<>> THEN x
                  ELSE Throw(x, BufferException(<<"VAO setup failed: ">> \o x.exc)) :
                  x \in {m}} : TRUE

\* The two uploads that precede the try block.
UploadData(m, p_vb, p_ib, vertices, indices) ==
    CHOOSE r \in {IF Stopped(x) THEN x
                  ELSE IndexBuffer_Create(x, p_ib, "valid", SizeofUnsignedInt * Len(indices)) :
                  x \in {VertexBuffer_Create(m, p_vb, "valid", SizeofVertex * Len(vertices))}} :
        TRUE

\* Leaving createVAOFromData: by return, or by a throw that unwinds its locals.
Leave(m, before) ==
    CHOOSE r \in {IF x.crashed \/ x.exc = <<>> THEN x ELSE Unwind(x, before) :
                  x \in {m}} : TRUE

\* createVAOFromData were it to upload without looking at the lists first.
createVAOFromData_NoEmptyCheck(m, vertices, indices) ==
    LET m0   == MakeShared(m)
        p_va == Len(m.vas) + 1
        p_vb == Len(m.vbs) + 1
        p_ib == Len(m.ibs) + 1
    IN  Leave(CHOOSE r \in {IF Stopped(x) THEN x
                            ELSE CatchSetupFailure(WireVAO(x, p_va, p_vb, p_ib)) :
                            x \in {UploadData(m0, p_vb, p_ib, vertices, indices)}} : TRUE,
              m)

\* The make_shared results are never null, so the "Null buffer" check between
\* the uploads and the try block never throws.
createVAOFromData(m, vertices, indices) ==
    LET m0   == MakeShared(m)
        p_va == Len(m.vas) + 1
        p_vb == Len(m.vbs) + 1
        p_ib == Len(m.ibs) + 1
    IN  IF vertices = <<>> \/ indices = <<>>
        THEN Unwind(Throw(m0, BufferException(<<"Empty vertex or index data in createVAOFromData">>)), m)
        ELSE Leave(CHOOSE r \in {IF Stopped(x) THEN x
                                 ELSE CatchSetupFailure(WireVAO(x, p_va, p_vb, p_ib)) :
                                 x \in {UploadData(m0, p_vb, p_ib, vertices, indices)}} : TRUE,
                   m)

\* ------------------------------------------------------------- factories
CubePositions ==
    <<<<-1, 1, 1>>, <<1, 1, 1>>, <<1, -1, 1>>, <<-1, -1, 1>>,
      <<-1, 1, -1>>, <<1, 1, -1>>, <<1, -1, -1>>, <<-1, -1, -1>>>>

CubeVertices ==
    LET g0 == Geometry(VertexList(24))
        g1 == DefineFace(g0, 0, CubePositions, <<0, 1, 2, 3>>, QUAD_TEXTURE_COORDS)
        g2 == DefineFace(g1, 4, CubePositions, <<1, 5, 6, 2>>, QUAD_TEXTURE_COORDS)
        g3 == DefineFace(g2, 8, CubePositions, <<4, 5, 1, 0>>, QUAD_TEXTURE_COORDS)
        g4 == DefineFace(g3, 12, CubePositions, <<4, 0, 3, 7>>, QUAD_TEXTURE_COORDS)
        g5 == DefineFace(g4, 16, CubePositions, <<5, 4, 7, 6>>, QUAD_TEXTURE_COORDS)
    IN  DefineFace(g5, 20, CubePositions, <<3, 2, 6, 7>>, QUAD_TEXTURE_COORDS)

CubeIndices == GenerateFaceIndices(<<>>, 6, 0)

FrustumPositions ==
    <<<<-1, 1, 1>>, <<1, 1, 1>>, <<2, -1, 2>>, <<-2, -1, 2>>,
      <<-1, 1, -1>>, <<1, 1, -1>>, <<2, -1, -2>>, <<-2, -1, -2>>>>

FrustumVertices ==
    LET g0 == Geometry(VertexList(24))
        g1 == DefineFace(g0, 0, FrustumPositions, <<0, 1, 2, 3>>, QUAD_TEXTURE_COORDS)
        g2 == DefineFace(g1, 4, FrustumPositions, <<1, 5, 6, 2>>, QUAD_TEXTURE_COORDS)
        g3 == DefineFace(g2, 8, FrustumPositions, <<5, 4, 7, 6>>, QUAD_TEXTURE_COORDS)
        g4 == DefineFace(g3, 12, FrustumPositions, <<4, 0, 3, 7>>, QUAD_TEXTURE_COORDS)
        g5 == DefineFace(g4, 16, FrustumPositions, <<3, 2, 6, 7>>, QUAD_TEXTURE_COORDS)
    IN  DefineFace(g5, 20, FrustumPositions, <<0, 1, 5, 4>>, QUAD_TEXTURE_COORDS)

FrustumIndices == GenerateFaceIndices(<<>>, 6, 0)

PyramidPositions ==
    <<<<0, 1, 0>>, <<-1, -1, 1>>, <<1, -1, 1>>, <<1, -1, -1>>, <<-1, -1, -1>>>>

PyramidVertices ==
    LET g0 == Geometry(VertexList(16))
        g1 == DefineFace(g0, 0, PyramidPositions, <<0, 1, 2>>, TRIANGLE_TEXTURE_COORDS)
        g2 == DefineFace(g1, 3, PyramidPositions, <<0, 2, 3>>, TRIANGLE_TEXTURE_COORDS)
        g3 == DefineFace(g2, 6, PyramidPositions, <<0, 3, 4>>, TRIANGLE_TEXTURE_COORDS)
        g4 == DefineFace(g3, 9, PyramidPositions, <<0, 4, 1>>, TRIANGLE_TEXTURE_COORDS)
    IN  DefineFace(g4, 12, PyramidPositions, <<1, 2, 3, 4>>, QUAD_TEXTURE_COORDS)

\* The index list were the base split along 13-14 instead of 12-14.
PyramidIndices_BaseSplitAlongEdge ==
    <<0, 1, 2, 3, 4, 5, 6, 7, 8, 9, 10, 11, 12, 13, 14, 13, 14, 15>>

PyramidIndices == <<0, 1, 2, 3, 4, 5, 6, 7, 8, 9, 10, 11, 12, 13, 14, 12, 14, 15>>

\* The square were its sixth vertex the top-right corner again.
SquareVertices_TopRightRepeated ==
    Geometry(<<[position |-> <<-1, 1, -2>>, texture |-> <<0, 2>>],
               [position |-> <<1, 1, -2>>, texture |-> <<2, 2>>],
               [position |-> <<1, -1, -2>>, texture |-> <<2, 0>>],
               [position |-> <<1, -1, -2>>, texture |-> <<2, 0>>],
               [position |-> <<-1, -1, -2>>, texture |-> <<0, 0>>],
               [position |-> <<1, 1, -2>>, texture |-> <<2, 2>>]>>)

SquareVertices ==
    Geometry(<<[position |-> <<-1, 1, -2>>, texture |-> <<0, 2>>],
               [position |-> <<1, 1, -2>>, texture |-> <<2, 2>>],
               [position |-> <<1, -1, -2>>, texture |-> <<2, 0>>],
               [position |-> <<1, -1, -2>>, texture |-> <<2, 0>>],
               [position |-> <<-1, -1, -2>>, texture |-> <<0, 0>>],
               [position |-> <<-1, 1, -2>>, texture |-> <<0, 2>>]>>)

SquareIndices == <<0, 1, 2, 3, 4, 5>>

\* Vertex i of the circle lies at angle m_angles * i degrees: its coordinates
\* are the terms cos and sin of that angle, its texture coordinates 0.5 + 0.5
\* times them.  C++ int division truncates; m_angles > 0 here.
CircleVertices(m_angles) ==
    LET vertexCount == 360 \div m_angles
        textureCoords == [i \in 1..vertexCount |->
                             <<[fn |-> "0.5+0.5*cos", deg |-> m_angles * (i - 1)],
                               [fn |-> "0.5+0.5*sin", deg |-> m_angles * (i - 1)]>>]
        positioned == [i \in 1..vertexCount |->
                          [position |-> <<[fn |-> "cos", deg |-> m_angles * (i - 1)],
                                          [fn |-> "sin", deg |-> m_angles * (i - 1)],
                                          0>>,
                           texture  |-> <<0, 0>>]]
    IN  AssignTextureCoords(Geometry(positioned), 0, textureCoords)

\* The loop were every triangle to start at its own vertex instead of vertex 0.
FanIndicesFrom_Strip(indices, i, faceCount) ==
    indices \o [k \in 1..(3 * (faceCount - i)) |->
                   LET face == i + (k - 1) \div 3
                   IN  CASE (k - 1) % 3 = 0 -> face
                         [] (k - 1) % 3 = 1 -> face + 2
                         [] (k - 1) % 3 = 2 -> face + 1]

\* The for loop of the circle factory from face i on: three push_backs per
\* face, written as the sequence they leave behind.
FanIndicesFrom(indices, i, faceCount) ==
    indices \o [k \in 1..(3 * (faceCount - i)) |->
                   LET face == i + (k - 1) \div 3
                   IN  CASE (k - 1) % 3 = 0 -> 0
                         [] (k - 1) % 3 = 1 -> face + 2
                         [] (k - 1) % 3 = 2 -> face + 1]

\* The fan were it to have one face per vertex but the first.
CircleIndices_OneFaceMore(m_angles) == FanIndicesFrom(<<>>, 0, (360 \div m_angles) - 1)

CircleIndices(m_angles) == FanIndicesFrom(<<>>, 0, (360 \div m_angles) - 2)

\* ---------------------------------------------------- ShapeFactoryManager
\* enum class ShapeTypes
Circle == 0
Square == 1
Cube == 2
Pyramid == 3
Frustum == 4

\* The keys of the factories map the constructor fills.
Factories == {Square, Circle, Cube, Pyramid, Frustum}

\* The angle step the constructor gives the circle factory.
CircleAngles == 10

FactoryName(shapeType) ==
    CASE shapeType = Square  -> "SquareFactory::createShape"
      [] shapeType = Circle  -> "CircleFactory::createShape"
      [] shapeType = Cube    -> "CubeFactory::createShape"
      [] shapeType = Pyramid -> "PyramidFactory::createShape"
      [] shapeType = Frustum -> "FrustumFactory::createShape"

\* The lists of the circle factory the constructor registers.
RegisteredCircleVertices == CircleVertices(CircleAngles)

RegisteredCircleIndices == CircleIndices(CircleAngles)

FactoryVertices(shapeType) ==
    CASE shapeType = Square  -> SquareVertices
      [] shapeType = Circle  -> RegisteredCircleVertices
      [] shapeType = Cube    -> CubeVertices
      [] shapeType = Pyramid -> PyramidVertices
      [] shapeType = Frustum -> FrustumVertices

FactoryIndices(shapeType) ==
    CASE shapeType = Square  -> SquareIndices
      [] shapeType = Circle  -> RegisteredCircleIndices
      [] shapeType = Cube    -> CubeIndices
      [] shapeType = Pyramid -> PyramidIndices
      [] shapeType = Frustum -> FrustumIndices

\* it->second->createShape(): the factory builds its lists (a helper's throw
\* leaves it at once) and hands them to createVAOFromData.  The invocation is
\* logged among the calls.
Factory_createShape(m, shapeType) ==
    LET m1 == Issue(m, GLCall(FactoryName(shapeType), "", shapeType, 0, 0, 0))
        g  == FactoryVertices(shapeType)
    IN  IF g.exc # <<>>
        THEN Throw(m1, g.exc)
        ELSE createVAOFromData(m1, g.vertices, FactoryIndices(shapeType))

\* shapeCache[shapeType] = shape, reached when the factory returned.
CacheShape(m, shapeType) ==
    CHOOSE r \in {IF Stopped(x) THEN x
                  ELSE [x EXCEPT !.cache = [k \in DOMAIN @ \cup {shapeType} |->
                                               IF k = shapeType THEN x.ret ELSE @[k]]] :
                  x \in {m}} : TRUE

\* createShape were it to ask the factory before looking in the cache.
ShapeFactoryManager_createShape_NoCacheLookup(m, shapeType) ==
    IF shapeType \notin Factories
    THEN Throw(m, GrafException(<<"Unknown shape type">>))
    ELSE CacheShape(Factory_createShape(m, shapeType), shapeType)

\* createShape were it to hand out (and cache) a null drawable for a kind it
\* has no factory for.
ShapeFactoryManager_createShape_NullForUnknown(m, shapeType) ==
    IF shapeType \in DOMAIN m.cache
    THEN [m EXCEPT !.ret = m.cache[shapeType]]
    ELSE IF shapeType \notin Factories
    THEN [m EXCEPT !.ret = NULL,
                   !.cache = [k \in DOMAIN @ \cup {shapeType} |->
                                 IF k = shapeType THEN NULL ELSE @[k]]]
    ELSE CacheShape(Factory_createShape(m, shapeType), shapeType)

ShapeFactoryManager_createShape(m, shapeType) ==
    IF shapeType \in DOMAIN m.cache
    THEN [m EXCEPT !.ret = m.cache[shapeType]]
    ELSE IF shapeType \notin Factories
    THEN Throw(m, GrafException(<<"Unknown shape type">>))
    ELSE CacheShape(Factory_createShape(m, shapeType), shapeType)

\* ------------------------------------------------------------ DrawObject
TextureException(message) == GrafException(<<"Texture Error: ">> \o message)

\* The texture a scene object names is in the manager's map, or is not.
TextureStates == {"loaded", "missing"}

TextureManager_sActivateTexture(m, texture) ==
    IF texture = "missing"
    THEN Throw(m, TextureException(<<"Texture not found: ", texture>>))
    ELSE CheckGLError(Issue(m, GLCall("glBindTexture", "GL_TEXTURE_2D", 0, 0, 0, 0)),
                      "Texture activation")

\* The statements of DrawObject's try block that act on the graphics context
\* (SetMat4 sets a uniform and throws nothing).
DrawStatements == <<"Bind", "sActivateTexture", "Draw", "Unbind">>

DrawStatement(m, statement, p_va, texture) ==
    CASE statement = "Bind" -> VertexArrayObject_Bind(m, p_va)
      [] statement = "sActivateTexture" -> TextureManager_sActivateTexture(m, texture)
      [] statement = "Draw" -> VertexArrayObject_Draw(m, p_va)
      [] statement = "Unbind" -> VertexArrayObject_Unbind(m, p_va)

RECURSIVE RunDraw(_, _, _, _)
\* The statements run one after the other on the machine the one before left
\* (computed once, then named x); a throw or a crash skips the rest.
RunDraw(m, statements, p_va, texture) ==
    IF statements = <<>>
    THEN m
    ELSE CHOOSE r \in
             {IF Stopped(x) THEN x
              ELSE RunDraw(DrawStatement(x, Head(statements), p_va, texture),
                           Tail(statements), p_va, texture) : x \in {m}} : TRUE

\* catch (const std::exception&): the message goes to std::cerr and DrawObject
\* returns normally; the write is logged among the calls.
CatchDrawFailure(m) ==
    CHOOSE r \in {IF x.crashed \/ x.exc = <<>> THEN x
                  ELSE [Issue(x, GLCall("std::cerr", "Draw object failed: ", 0, 0, 0, 0))
                           EXCEPT !.exc = <<>>] :
                  x \in {m}} : TRUE

DrawObject(m, p_va, texture) ==
    CatchDrawFailure(IF p_va = NULL
                     THEN Throw(m, BufferException(<<"Null vertex array object">>))
                     ELSE RunDraw(m, DrawStatements, p_va, texture))

\* ------------------------------------------------------------- the steps
\* The machine an operation starts from: the program's state, nothing thrown,
\* no GL call issued yet, and the environment's inputs for this operation.
Machine(env) ==
    [gl |-> gl, vbs |-> vbs, ibs |-> ibs, vas |-> vas, cache |-> shapeCache,
     crashed |-> crashed, exc |-> <<>>, calls |-> <<>>, ret |-> 0, env |-> env,
     fault |-> 0]

\* Whether a call of op on obj repeats the call before it, which acted on the
\* graphics context and threw nothing.
Repeats(op, obj) ==
    last.op = op /\ last.obj = obj /\ last.calls # <<>> /\ last.exc = <<>>

NoCall == [op |-> "", obj |-> 0, data |-> "", size |-> 0, kind |-> "", was |-> 0,
           fault |-> 0, exc |-> <<>>, calls |-> <<>>, ret |-> 0, again |-> FALSE]

\* The program's state becomes that of machine m; last records the call made:
\* the operation, the object it was called on, its arguments, the object's
\* handle before the call, whether the environment made one of its fallible GL
\* steps fail (fault = 1), what it threw, the GL calls it issued, its result, and
\* whether it repeats the call before it.
Commit(m, op, obj, data, size, kind, was) ==
    \E r \in {m} :
        /\ gl' = r.gl
        /\ vbs' = r.vbs
        /\ ibs' = r.ibs
        /\ vas' = r.vas
        /\ shapeCache' = r.cache
        /\ UNCHANGED <<vertexList, indexList, objects, activeIndex>>
        /\ crashed' = r.crashed
        /\ last' = [op |-> op, obj |-> obj, data |-> data, size |-> size, kind |-> kind,
                    was |-> was, fault |-> r.fault, exc |-> r.exc, calls |-> r.calls,
                    ret |-> r.ret,
                    again |-> Repeats(op, obj)]

InitGL ==
    [buffers |-> {}, arrays |-> {}, vao |-> 0, array |-> 0,
     element |-> [n \in 0..MaxName |-> 0],
     attribs |-> [n \in 0..MaxName |-> {}],
     enabled |-> [n \in 0..MaxName |-> {}]]

\* The byte sizes a caller passes to Create.
Sizes == {-4, 0, 4, 6}

DataPtrs == {"null", "valid"}

\* The bounded model stops making buffers once MaxBuffers of them exist.
MaxBuffers == 3

CanGenBuffer == Names \ gl.buffers # {} /\ Cardinality(gl.buffers) < MaxBuffers

CanGenVertexArray == Names \ gl.arrays # {}

CallVBCreate(b, data, size, env) ==
    /\ ~crashed /\ CanGenBuffer
    /\ Commit(VertexBuffer_Create(Machine(env), b, data, size),
              "VertexBuffer::Create", b, data, size, "", vbs[b].m_id)

CallVBBind(b, env) ==
    /\ ~crashed
    /\ Commit(VertexBuffer_Bind(Machine(env), b),
              "VertexBuffer::Bind", b, "", 0, "", vbs[b].m_id)

CallVBUnbind(b, env) ==
    /\ ~crashed
    /\ Commit(VertexBuffer_Unbind(Machine(env), b),
              "VertexBuffer::Unbind", b, "", 0, "", vbs[b].m_id)

CallVBRelease(b, env) ==
    /\ ~crashed
    /\ Commit(VertexBuffer_Release(Machine(env), b),
              "VertexBuffer::Release", b, "", 0, "", vbs[b].m_id)

CallIBCreate(b, data, size, env) ==
    /\ ~crashed /\ CanGenBuffer
    /\ Commit(IndexBuffer_Create(Machine(env), b, data, size),
              "IndexBuffer::Create", b, data, size, "", ibs[b].m_id)

CallIBBind(b, env) ==
    /\ ~crashed
    /\ Commit(IndexBuffer_Bind(Machine(env), b),
              "IndexBuffer::Bind", b, "", 0, "", ibs[b].m_id)

CallIBUnbind(b, env) ==
    /\ ~crashed
    /\ Commit(IndexBuffer_Unbind(Machine(env), b),
              "IndexBuffer::Unbind", b, "", 0, "", ibs[b].m_id)

CallIBRelease(b, env) ==
    /\ ~crashed
    /\ Commit(IndexBuffer_Release(Machine(env), b),
              "IndexBuffer::Release", b, "", 0, "", ibs[b].m_id)

\* The outcomes of undefined behaviour an operation on VAO v can meet: a null
\* mp_vb or mp_ib may be dereferenced.
UbOutcomes(v) ==
    IF vas[v].mp_vb = NULL \/ vas[v].mp_ib = NULL THEN {"proceed", "crash"} ELSE {"proceed"}

CallVAOCreate(v, env) ==
    /\ ~crashed /\ CanGenVertexArray
    /\ Commit(VertexArrayObject_Create(Machine(env), v),
              "VertexArrayObject::Create", v, "", 0, "", vas[v].m_id)

CallVAOBind(v, env) ==
    /\ ~crashed
    /\ Commit(VertexArrayObject_Bind(Machine(env), v),
              "VertexArrayObject::Bind", v, "", 0, "", vas[v].m_id)

CallVAOUnbind(v, env) ==
    /\ ~crashed
    /\ Commit(VertexArrayObject_Unbind(Machine(env), v),
              "VertexArrayObject::Unbind", v, "", 0, "", vas[v].m_id)

\* p is the buffer passed (NULL: a null shared pointer); last.size records it.
CallVAOSetVertexBuffer(v, p, env) ==
    /\ ~crashed
    /\ Commit(VertexArrayObject_SetVertexBuffer(Machine(env), v, p),
              "VertexArrayObject::SetVertexBuffer", v, "", p, "", vas[v].m_id)

CallVAOSetIndexBuffer(v, p, env) ==
    /\ ~crashed
    /\ Commit(VertexArrayObject_SetIndexBuffer(Machine(env), v, p),
              "VertexArrayObject::SetIndexBuffer", v, "", p, "", vas[v].m_id)

CallVAOAddVertexAttribute(v, type, env) ==
    /\ ~crashed
    /\ Commit(VertexArrayObject_AddVertexAttribute(Machine(env), v, type),
              "VertexArrayObject::AddVertexAttribute", v, "", 0, type, vas[v].m_id)

CallVAOActivateAttributes(v, env) ==
    /\ ~crashed
    /\ Commit(VertexArrayObject_ActivateAttributes(Machine(env), v),
              "VertexArrayObject::ActivateAttributes", v, "", 0, "", vas[v].m_id)

CallVAODraw(v, env) ==
    /\ ~crashed
    /\ Commit(VertexArrayObject_Draw(Machine(env), v),
              "VertexArrayObject::Draw", v, "", 0, "", vas[v].m_id)

\* The texture state is recorded in last.data.
CallDrawObject(v, texture, env) ==
    /\ ~crashed
    /\ Commit(DrawObject(Machine(env), v, texture),
              "DrawObject", v, texture, 0, "", IF v = NULL THEN 0 ELSE vas[v].m_id)

CallVAORelease(v, env) ==
    /\ ~crashed
    /\ Commit(VertexArrayObject_Release(Machine(env), v),
              "VertexArrayObject::Release", v, "", 0, "", vas[v].m_id)

\* ---------------------------------------- specification: the GPU buffers
\* One vertex buffer and one index buffer, used through their own interface.
InitBuf ==
    /\ gl = InitGL
    /\ vbs = <<NewVertexBuffer>>
    /\ ibs = <<NewIndexBuffer>>
    /\ vas = <<>>
    /\ shapeCache = <<>>
    /\ vertexList = <<>>
    /\ objects = <<>>
    /\ activeIndex = 4
    /\ indexList = <<>>
    /\ crashed = FALSE
    /\ last = NoCall

NextBuf ==
    \/ \E b \in DOMAIN vbs, data \in DataPtrs, size \in Sizes :
           \E env \in CreateEnvs(data, size) : CallVBCreate(b, data, size, env)
    \/ \E b \in DOMAIN vbs, env \in NoEnv : CallVBBind(b, env)
    \/ \E b \in DOMAIN vbs, env \in NoEnv : CallVBUnbind(b, env)
    \/ \E b \in DOMAIN vbs, env \in NoEnv : CallVBRelease(b, env)
    \/ \E b \in DOMAIN ibs, data \in DataPtrs, size \in Sizes :
           \E env \in CreateEnvs(data, size) : CallIBCreate(b, data, size, env)
    \/ \E b \in DOMAIN ibs, env \in NoEnv : CallIBBind(b, env)
    \/ \E b \in DOMAIN ibs, env \in NoEnv : CallIBUnbind(b, env)
    \/ \E b \in DOMAIN ibs, env \in NoEnv : CallIBRelease(b, env)

SpecBuf == InitBuf /\ [][NextBuf]_vars

\* C5: Release of a vertex or index buffer is idempotent: on a live buffer it
\* deletes the GPU object once (one glDeleteBuffers of the handle, which is then
\* no longer allocated) and resets the handle to 0; on a buffer whose handle is
\* already 0 it issues no GL call and changes nothing.
C5_ReleaseIdempotent ==
    [][/\ \A b \in DOMAIN vbs :
              (last'.op = "VertexBuffer::Release" /\ last'.obj = b) =>
                  /\ vbs'[b].m_id = 0
                  /\ last'.exc = <<>>
                  /\ IF vbs[b].m_id # 0
                     THEN /\ last'.calls = <<GLCall("glDeleteBuffers", "", vbs[b].m_id, 0, 0, 0)>>
                          /\ gl'.buffers = gl.buffers \ {vbs[b].m_id}
                     ELSE last'.calls = <<>> /\ gl' = gl /\ vbs' = vbs
       /\ \A b \in DOMAIN ibs :
              (last'.op = "IndexBuffer::Release" /\ last'.obj = b) =>
                  /\ ibs'[b].m_id = 0
                  /\ last'.exc = <<>>
                  /\ IF ibs[b].m_id # 0
                     THEN /\ last'.calls = <<GLCall("glDeleteBuffers", "", ibs[b].m_id, 0, 0, 0)>>
                          /\ gl'.buffers = gl.buffers \ {ibs[b].m_id}
                     ELSE last'.calls = <<>> /\ gl' = gl /\ ibs' = ibs
      ]_vars

\* A second Release right after a Release that deleted the buffer.
C5_Witness ==
    /\ last.op = "IndexBuffer::Release"
    /\ last.again
    /\ last.was = 0
    /\ last.calls = <<>>
    /\ ibs[last.obj].m_id = 0

\* C6 (as claimed): after any sequence of Create and Release calls a buffer is
\* empty or live, and every allocated GPU buffer object is the one some
\* instance's handle names.
C6_NoOrphanBuffer ==
    /\ \A b \in DOMAIN vbs : vbs[b].m_id = 0 \/ vbs[b].m_id \in gl.buffers
    /\ \A b \in DOMAIN ibs : ibs[b].m_id = 0 \/ ibs[b].m_id \in gl.buffers
    /\ gl.buffers \subseteq {vbs[b].m_id : b \in DOMAIN vbs} \cup {ibs[b].m_id : b \in DOMAIN ibs}

\* C8: Create with null data or size <= 0 throws the invalid-argument error
\* before any GL call: no call is issued and the handles, the index count and
\* the graphics context are as before the call.
C8_InvalidCreateChangesNothing ==
    [][(/\ last'.op \in {"VertexBuffer::Create", "IndexBuffer::Create"}
        /\ (last'.data = "null" \/ last'.size <= 0)) =>
           /\ last'.exc = BufferException(<<IF last'.op = "VertexBuffer::Create"
                                            THEN "Invalid vertex buffer data or size"
                                            ELSE "Invalid buffer data or size">>)
           /\ last'.calls = <<>>
           /\ gl' = gl /\ vbs' = vbs /\ ibs' = ibs
      ]_vars

\* Create(validPtr, 0) refused on a live, bound index buffer.
C8_Witness ==
    /\ last.op = "IndexBuffer::Create"
    /\ last.data = "valid"
    /\ last.size = 0
    /\ last.exc # <<>>
    /\ last.was # 0
    /\ ibs[last.obj].m_id = last.was
    /\ ibs[last.obj].m_IndexCount > 0
    /\ gl.element[gl.vao] = last.was

\* C9 (as claimed): after a successful IndexBuffer::Create(data, size) the
\* recorded index count times 4 is size.
C9_IndexCountExact ==
    (last.op = "IndexBuffer::Create" /\ last.exc = <<>>) =>
        IndexBuffer_getIndexCount([ibs |-> ibs], last.obj) * 4 = last.size


\* ------------------------------------ specification: the attribute layout
\* One vertex array object as createVAOFromData builds it: made, Created while
\* its attribute list is still empty, then given attributes and activated.
MaxAttrs == 3

InitAttr ==
    /\ gl = InitGL
    /\ vbs = <<>>
    /\ ibs = <<>>
    /\ vas = <<NewVertexArrayObject>>
    /\ shapeCache = <<>>
    /\ vertexList = <<>>
    /\ objects = <<>>
    /\ activeIndex = 4
    /\ indexList = <<>>
    /\ crashed = FALSE
    /\ last = NoCall

NextAttr ==
    \/ \E v \in DOMAIN vas, env \in EnvsOf(2, {"GL_OUT_OF_MEMORY"}, {0, 1}, {"proceed"}) :
           vas[v].m_id = 0 /\ vas[v].m_attributes = <<>> /\ CallVAOCreate(v, env)
    \/ \E v \in DOMAIN vas, env \in NoEnv : CallVAOBind(v, env)
    \/ \E v \in DOMAIN vas, type \in AttributeTypes, env \in NoEnv :
           Len(vas[v].m_attributes) < MaxAttrs /\ CallVAOAddVertexAttribute(v, type, env)
    \/ \E v \in DOMAIN vas :
           \E env \in EnvsOf(2 * Len(vas[v].m_attributes), {"GL_INVALID_VALUE"}, {0}, {"proceed"}) :
               CallVAOActivateAttributes(v, env)

SpecAttr == InitAttr /\ [][NextAttr]_vars

\* The byte sizes the claim gives for the attribute kinds.
AttrBytes(type) ==
    CASE type = "Position" -> 12
      [] type = "Normal"   -> 12
      [] type = "Color"    -> 16
      [] type = "Texture"  -> 8

RECURSIVE SumBytes(_)
SumBytes(types) ==
    IF types = <<>> THEN 0 ELSE AttrBytes(types[1]) + SumBytes(Tail(types))

\* The glVertexAttribPointer calls among calls, in order.
PointerCalls(calls) == SelectSeq(calls, LAMBDA c : c.fn = "glVertexAttribPointer")

EnableCalls(calls) == SelectSeq(calls, LAMBDA c : c.fn = "glEnableVertexAttribArray")

\* C3: the stride of a vertex array is the sum of the byte sizes of the kinds
\* added to it, and ActivateAttributes registers attribute i at location i with
\* size/4 float components, that stride, and the byte offset that is the sum of
\* the sizes of attributes 0..i-1; when it returns normally it has registered
\* and enabled every attribute of the list.
C3_StrideAndOffsets ==
    \A v \in DOMAIN vas :
        LET attrs == vas[v].m_attributes
            ptrs  == PointerCalls(last.calls)
            enbs  == EnableCalls(last.calls)
        IN  /\ vas[v].m_stride = SumBytes(attrs)
            /\ (last.op = "VertexArrayObject::ActivateAttributes" /\ last.obj = v) =>
                   /\ Len(ptrs) <= Len(attrs)
                   /\ \A k \in 1..Len(ptrs) :
                          /\ ptrs[k].x = k - 1
                          /\ ptrs[k].y * 4 = AttrBytes(attrs[k])
                          /\ ptrs[k].z = SumBytes(attrs)
                          /\ ptrs[k].w = SumBytes(SubSeq(attrs, 1, k - 1))
                   /\ \A k \in 1..Len(enbs) : enbs[k].x = k - 1
                   /\ (last.exc = <<>>) => (Len(ptrs) = Len(attrs) /\ Len(enbs) = Len(attrs))
                   /\ (attrs = <<>>) => last.exc = BufferException(<<"No vertex attributes specified">>)

\* Three attributes of three different sizes activated without error.
C3_Witness ==
    /\ last.op = "VertexArrayObject::ActivateAttributes"
    /\ last.exc = <<>>
    /\ vas[last.obj].m_attributes = <<"Color", "Position", "Texture">>
    /\ Len(PointerCalls(last.calls)) = 3
    /\ PointerCalls(last.calls)[3].w = 28
    /\ vas[last.obj].m_stride = 36

\* -------------------------------- specification: the vertex array object
\* One vertex array object, one vertex buffer and one index buffer, each made
\* with make_shared, used through the VAO's interface and the buffers' own.
\* Each object is Created only while its handle is empty (Create on a live
\* buffer is the subject of SpecBuf).
VAOSizes == {4, 8}

\* One fallible GL step, one error code.
FaultEnvs(n, ubs) == EnvsOf(n, {"GL_INVALID_OPERATION"}, {0}, ubs)

InitVAO ==
    /\ gl = InitGL
    /\ vbs = <<NewVertexBuffer>>
    /\ ibs = <<NewIndexBuffer>>
    /\ vas = <<NewVertexArrayObject>>
    /\ shapeCache = <<>>
    /\ vertexList = <<>>
    /\ objects = <<>>
    /\ activeIndex = 4
    /\ indexList = <<>>
    /\ crashed = FALSE
    /\ last = NoCall

NextVAO ==
    \/ \E v \in DOMAIN vas, env \in FaultEnvs(2, {"proceed"}) :
           vas[v].m_id = 0 /\ CallVAOCreate(v, env)
    \/ \E v \in DOMAIN vas, env \in NoEnv : CallVAOBind(v, env)
    \/ \E v \in DOMAIN vas : \E env \in FaultEnvs(0, UbOutcomes(v)) : CallVAOUnbind(v, env)
    \/ \E v \in DOMAIN vas, p \in {NULL} \cup DOMAIN vbs :
           \E env \in FaultEnvs(1, UbOutcomes(v)) : CallVAOSetVertexBuffer(v, p, env)
    \/ \E v \in DOMAIN vas, p \in {NULL} \cup DOMAIN ibs :
           \E env \in FaultEnvs(1, UbOutcomes(v)) : CallVAOSetIndexBuffer(v, p, env)
    \/ \E v \in DOMAIN vas, env \in FaultEnvs(1, {"proceed"}) : CallVAODraw(v, env)
    \/ \E v \in DOMAIN vas : \E env \in FaultEnvs(0, UbOutcomes(v)) : CallVAORelease(v, env)
    \/ \E v \in DOMAIN vas, texture \in TextureStates :
           \E env \in FaultEnvs(2, UbOutcomes(v)) : CallDrawObject(v, texture, env)
    \/ \E b \in DOMAIN vbs, env \in FaultEnvs(2, {"proceed"}) :
           vbs[b].m_id = 0 /\ CallVBCreate(b, "valid", 20, env)
    \/ \E b \in DOMAIN ibs, size \in VAOSizes, env \in FaultEnvs(2, {"proceed"}) :
           ibs[b].m_id = 0 /\ CallIBCreate(b, "valid", size, env)
    \/ \E b \in DOMAIN vbs, env \in NoEnv : CallVBBind(b, env)
    \/ \E b \in DOMAIN ibs, env \in NoEnv : CallIBBind(b, env)
    \/ \E b \in DOMAIN vbs, env \in NoEnv : CallVBRelease(b, env)
    \/ \E b \in DOMAIN ibs, env \in NoEnv : CallIBRelease(b, env)

SpecVAO == InitVAO /\ [][NextVAO]_vars

\* C4: Draw on a vertex array with no index buffer set throws the invalid-state
\* error and issues no GL call; with an index buffer set it issues exactly one
\* call, glDrawElements(GL_TRIANGLES, K, GL_UNSIGNED_INT, 0), K being the index
\* buffer's recorded count.
C4_DrawNeedsIndexBuffer ==
    (last.op = "VertexArrayObject::Draw") =>
        LET v == last.obj
        IN  IF vas[v].mp_ib = NULL
            THEN /\ last.exc = BufferException(<<"No index buffer bound for drawing">>)
                 /\ last.calls = <<>>
            ELSE /\ Len(last.calls) = 1
                 /\ last.calls[1].fn = "glDrawElements"
                 /\ last.calls[1].tgt = "GL_TRIANGLES"
                 /\ last.calls[1].x = ibs[vas[v].mp_ib].m_IndexCount
                 /\ last.calls[1].y = 0

\* A draw of two indices through a created, bound vertex array.
C4_Witness ==
    /\ last.op = "VertexArrayObject::Draw"
    /\ last.exc = <<>>
    /\ Len(last.calls) = 1
    /\ last.calls[1].x = 2
    /\ last.calls[1].w = vas[last.obj].m_id
    /\ last.calls[1].w # 0
    /\ last.calls[1].z = ibs[vas[last.obj].mp_ib].m_id
    /\ last.calls[1].z # 0

\* C7 (as claimed): after the Release of a live buffer its handle is empty, and
\* the use of the buffer that follows (Bind on it, or Draw through a vertex
\* array that holds it) is reported as an error.
C7_UseAfterReleaseIsError ==
    [][/\ \A b \in DOMAIN vbs :
              (/\ last.op = "VertexBuffer::Release" /\ last.obj = b /\ last.was # 0
               /\ last'.op = "VertexBuffer::Bind" /\ last'.obj = b)
                  => (vbs'[b].m_id = 0 /\ last'.exc # <<>>)
       /\ \A b \in DOMAIN ibs :
              (/\ last.op = "IndexBuffer::Release" /\ last.obj = b /\ last.was # 0
               /\ \/ last'.op = "IndexBuffer::Bind" /\ last'.obj = b
                  \/ last'.op = "VertexArrayObject::Draw" /\ vas[last'.obj].mp_ib = b)
                  => (ibs'[b].m_id = 0 /\ last'.exc # <<>>)
      ]_vars

\* C10 (as claimed): when the context reports an error while SetVertexBuffer or
\* SetIndexBuffer binds a (non-null) buffer to a created VAO, the call ends with no VAO current
\* and throws one wrapped error that carries the original message.
C10_BindFailureUnwinds ==
    (/\ last.op \in {"VertexArrayObject::SetVertexBuffer", "VertexArrayObject::SetIndexBuffer"}
     /\ last.size # NULL
     /\ last.was # 0
     /\ last.fault = 1) =>
        /\ ~crashed
        /\ gl.vao = 0
        /\ \E code \in GLErrors :
               last.exc = IF last.op = "VertexArrayObject::SetVertexBuffer"
                          THEN BufferException(<<"Failed to set vertex buffer: ",
                                                 "Vertex buffer binding", " failed: ",
                                                 errorMsg(code)>>)
                          ELSE BufferException(<<"Failed to set index buffer: ",
                                                 "Index buffer binding", " failed: ",
                                                 errorMsg(code)>>)

\* A vertex array whose GL object exists and whose two buffers are set.
Wired(v) ==
    /\ vas[v].m_id \in gl.arrays
    /\ vas[v].mp_vb # NULL
    /\ vas[v].mp_ib # NULL

\* The glDrawElements calls of a call log.
DrawCalls(calls) == SelectSeq(calls, LAMBDA c : c.fn = "glDrawElements")

\* C11: Unbind on a vertex array with both buffers set leaves no VAO current
\* and no buffer current on the vertex and index targets, and the element
\* buffer the VAO's GL object records is the one it recorded before; and every
\* later DrawObject (Bind, Draw, Unbind) on it draws with that VAO current from
\* the element buffer the VAO records, and leaves that record as it was.
C11_UnbindKeepsIndexAssociation ==
    [][\A v \in DOMAIN vas :
           /\ (last'.op = "VertexArrayObject::Unbind" /\ last'.obj = v /\ Wired(v)) =>
                  (/\ ~crashed' /\ last'.exc = <<>>
                   /\ gl'.vao = 0
                   /\ gl'.array = 0
                   /\ gl'.element[0] = 0
                   /\ gl'.element[vas[v].m_id] = gl.element[vas[v].m_id])
           /\ (last'.op = "DrawObject" /\ last'.obj = v /\ Wired(v)) =>
                  (/\ ~crashed'
                   /\ gl'.element[vas[v].m_id] = gl.element[vas[v].m_id]
                   /\ \A i \in DOMAIN DrawCalls(last'.calls) :
                          /\ DrawCalls(last'.calls)[i].w = vas[v].m_id
                          /\ DrawCalls(last'.calls)[i].z = gl.element[vas[v].m_id])
      ]_vars

\* A DrawObject that repeats one before it: the second draw, made after the
\* first one's Unbind, still reads the index buffer set on the vertex array.
C11_Witness ==
    /\ last.op = "DrawObject" /\ last.again
    /\ vas[last.obj].mp_vb # NULL /\ vas[last.obj].mp_ib # NULL
    /\ Len(DrawCalls(last.calls)) = 1
    /\ DrawCalls(last.calls)[1].w = vas[last.obj].m_id
    /\ DrawCalls(last.calls)[1].z = ibs[vas[last.obj].mp_ib].m_id
    /\ DrawCalls(last.calls)[1].z # 0
    /\ gl.vao = 0 /\ gl.array = 0 /\ gl.element[0] = 0
    /\ gl.element[vas[last.obj].m_id] = ibs[vas[last.obj].mp_ib].m_id

\* C12: Release on a vertex array with both buffers set deletes the VAO's GL
\* object and releases the vertex buffer (its GL object is deleted, its handle
\* becomes empty); the index buffer object keeps its handle and index count, and
\* its GL object stays allocated.
C12_ReleaseLeavesIndexBuffer ==
    [][\A v \in DOMAIN vas :
           (/\ last'.op = "VertexArrayObject::Release" /\ last'.obj = v
            /\ vas[v].mp_vb # NULL /\ vas[v].mp_ib # NULL) =>
               (/\ ~crashed' /\ last'.exc = <<>>
                /\ vas[v].m_id \notin gl'.arrays
                /\ vbs'[vas[v].mp_vb].m_id = 0
                /\ vbs[vas[v].mp_vb].m_id \notin gl'.buffers
                /\ ibs' = ibs
                /\ ibs[vas[v].mp_ib].m_id \in gl.buffers =>
                       ibs[vas[v].mp_ib].m_id \in gl'.buffers
                /\ gl'.buffers = gl.buffers \ {vbs[vas[v].mp_vb].m_id})
      ]_vars

\* A created vertex array released with both of its buffers live: the VAO and
\* the vertex buffer were deleted, the index buffer is still allocated.
C12_Witness ==
    /\ last.op = "VertexArrayObject::Release"
    /\ last.was # 0 /\ last.was \notin gl.arrays
    /\ vas[last.obj].mp_vb # NULL /\ vas[last.obj].mp_ib # NULL
    /\ Len(last.calls) = 2
    /\ last.calls[2].fn = "glDeleteBuffers" /\ last.calls[2].x # 0
    /\ vbs[vas[last.obj].mp_vb].m_id = 0
    /\ ibs[vas[last.obj].mp_ib].m_id \in gl.buffers
    /\ ibs[vas[last.obj].mp_ib].m_IndexCount = 2

\* ------------------------------------------------ the shape manager's steps
\* A request draws on the environment only when it reaches the factory: the
\* twelve fallible GL steps of createVAOFromData.  The seventh is the error
\* check of SetVertexBuffer, the one step whose failure reaches Unbind while
\* the index buffer pointer is still null.
FactorySteps == 12

SetVertexBufferStep == 7

\* Kind values no factory is registered for.
UnregisteredKinds == {-1, 5}

\* What the environment may do during one run of createVAOFromData.
SetupEnvs ==
    {e \in EnvsOf(FactorySteps, {"GL_OUT_OF_MEMORY"}, {0}, {"proceed", "crash"}) :
         e.ub = "crash" => e.failIn = SetVertexBufferStep}

MgrEnvs(shapeType) ==
    IF shapeType \in DOMAIN shapeCache \/ shapeType \notin Factories
    THEN NoEnv
    ELSE SetupEnvs

\* A drawable needs two buffer names and one vertex array name.
CanGenShape == Cardinality(Names \ gl.buffers) >= 2 /\ CanGenVertexArray

\* The argument is recorded in last.size, the cached object before the call (0
\* when there is none) in last.was.
CallCreateShape(shapeType, env) ==
    /\ ~crashed
    /\ shapeType \in DOMAIN shapeCache \/ shapeType \notin Factories \/ CanGenShape
    /\ Commit(ShapeFactoryManager_createShape(Machine(env), shapeType),
              "ShapeFactoryManager::createShape", 0, "", shapeType, "",
              IF shapeType \in DOMAIN shapeCache THEN shapeCache[shapeType] ELSE 0)

InitMgr ==
    /\ gl = InitGL
    /\ vbs = <<>>
    /\ ibs = <<>>
    /\ vas = <<>>
    /\ shapeCache = <<>>
    /\ vertexList = <<>>
    /\ objects = <<>>
    /\ activeIndex = 4
    /\ indexList = <<>>
    /\ crashed = FALSE
    /\ last = NoCall

NextMgr ==
    \E shapeType \in Factories \cup UnregisteredKinds :
        \E env \in MgrEnvs(shapeType) : CallCreateShape(shapeType, env)

SpecMgr == InitMgr /\ [][NextMgr]_vars

IsCreateShape(l) == l.op = "ShapeFactoryManager::createShape"

\* C1: once createShape(kind) has succeeded the kind is cached with the object
\* it returned; every later createShape(kind) returns that same object, invokes
\* no factory and makes no GL call (the graphics context and the objects stay
\* as they are); and no step replaces or removes a cache entry.
C1_CachedShapeIsShared ==
    [][/\ \A k \in DOMAIN shapeCache :
              k \in DOMAIN shapeCache' /\ shapeCache'[k] = shapeCache[k]
       /\ (IsCreateShape(last') /\ last'.size \in Factories
           /\ last'.exc = <<>> /\ ~crashed') =>
              (/\ last'.size \in DOMAIN shapeCache'
               /\ shapeCache'[last'.size] = last'.ret
               /\ last'.ret \in DOMAIN vas')
       /\ (IsCreateShape(last') /\ last'.size \in DOMAIN shapeCache) =>
              (/\ last'.ret = shapeCache[last'.size]
               /\ last'.exc = <<>>
               /\ last'.calls = <<>>
               /\ gl' = gl /\ vbs' = vbs /\ ibs' = ibs /\ vas' = vas
               /\ ~crashed')
       /\ (IsCreateShape(last') /\ last'.calls # <<>>) =>
              last'.size \notin DOMAIN shapeCache
      ]_vars

\* A cache hit while another kind is cached too: the request for the cube is
\* answered with the cube made before the pyramid was.
C1_Witness ==
    /\ IsCreateShape(last) /\ last.size = Cube
    /\ last.was # 0 /\ last.ret = last.was
    /\ last.calls = <<>>
    /\ Pyramid \in DOMAIN shapeCache
    /\ shapeCache[Cube] < shapeCache[Pyramid]

\* C2: createShape for a kind value outside the five registered ones throws
\* "Unknown shape type" on every call, invokes no factory, makes no GL call and
\* leaves the cache, the objects and the graphics context as they were.
C2_UnknownShapeRejected ==
    [][(IsCreateShape(last') /\ last'.size \notin Factories) =>
           (/\ last'.exc = GrafException(<<"Unknown shape type">>)
            /\ last'.calls = <<>>
            /\ last'.ret = 0
            /\ shapeCache' = shapeCache
            /\ last'.size \notin DOMAIN shapeCache'
            /\ gl' = gl /\ vbs' = vbs /\ ibs' = ibs /\ vas' = vas
            /\ ~crashed')
      ]_vars

\* An unregistered kind is refused while drawables are cached.
C2_Witness ==
    /\ IsCreateShape(last) /\ last.size = 5
    /\ last.exc = GrafException(<<"Unknown shape type">>)
    /\ DOMAIN shapeCache = {Square, Cube}

\* ------------------------------------ specification: createVAOFromData
\* A factory hands createVAOFromData lists of its own making: empty ones, a
\* triangle, a quad.
VertexLists == {<<>>, VertexList(3), VertexList(4)}

IndexLists == {<<>>, <<0, 1, 2>>, <<0, 2, 1, 0, 3, 2>>}

DataEnvs(vertices, indices) ==
    IF vertices = <<>> \/ indices = <<>> THEN NoEnv ELSE SetupEnvs

\* The lengths of the two lists are recorded in last.size and last.was.
CallCreateVAOFromData(vertices, indices, env) ==
    /\ ~crashed
    /\ vertices = <<>> \/ indices = <<>> \/ CanGenShape
    /\ Commit(createVAOFromData(Machine(env), vertices, indices),
              "ShapeFactory::createVAOFromData", 0, "", Len(vertices), "", Len(indices))

InitData ==
    /\ gl = InitGL
    /\ vbs = <<>>
    /\ ibs = <<>>
    /\ vas = <<>>
    /\ shapeCache = <<>>
    /\ vertexList = <<>>
    /\ objects = <<>>
    /\ activeIndex = 4
    /\ indexList = <<>>
    /\ crashed = FALSE
    /\ last = NoCall

NextData ==
    \E vertices \in VertexLists, indices \in IndexLists :
        \E env \in DataEnvs(vertices, indices) :
            CallCreateVAOFromData(vertices, indices, env)

SpecData == InitData /\ [][NextData]_vars

IsCreateVAOFromData(l) == l.op = "ShapeFactory::createVAOFromData"

\* C13: createVAOFromData with an empty vertex list or an empty index list
\* throws its invalid-argument error ("Empty vertex or index data ...") having
\* made no GL call: no buffer and no vertex array was allocated, and no object
\* of the call survives it.
C13_EmptyDataRejected ==
    [][(IsCreateVAOFromData(last') /\ (last'.size = 0 \/ last'.was = 0)) =>
           (/\ last'.exc = BufferException(<<"Empty vertex or index data in createVAOFromData">>)
            /\ last'.calls = <<>>
            /\ gl' = gl
            /\ vbs' = vbs /\ ibs' = ibs /\ vas' = vas
            /\ ~crashed')
      ]_vars

\* A quad's vertices with no indices are refused after a drawable was built.
C13_Witness ==
    /\ IsCreateVAOFromData(last) /\ last.size = 4 /\ last.was = 0
    /\ last.exc = BufferException(<<"Empty vertex or index data in createVAOFromData">>)
    /\ Len(vas) = 1
    /\ Cardinality(gl.buffers) = 2

\* C14: when createVAOFromData returns, the vertex array it returns has a live
\* GL object and live vertex and index buffers, its index count is the length
\* of the index list, its attribute list is <<Position, Texture>> with stride
\* 20, its GL object records location 0 as 3 floats at offset 0 and location 1
\* as 2 floats at offset 12, both with stride 20 and reading its vertex buffer,
\* both enabled, and its element buffer is its index buffer; no VAO is current.
C14_ReturnsWiredVAO ==
    (IsCreateVAOFromData(last) /\ last.exc = <<>> /\ ~crashed) =>
        LET v  == last.ret
            id == vas[v].m_id
            vb == vbs[vas[v].mp_vb].m_id
            ib == ibs[vas[v].mp_ib].m_id
        IN  /\ v \in DOMAIN vas
            /\ id \in gl.arrays
            /\ vas[v].mp_vb # NULL /\ vb \in gl.buffers
            /\ vas[v].mp_ib # NULL /\ ib \in gl.buffers
            /\ vb # ib
            /\ IndexBuffer_getIndexCount([ibs |-> ibs], vas[v].mp_ib) = last.was
            /\ vas[v].m_attributes = <<"Position", "Texture">>
            /\ vas[v].m_stride = 20
            /\ gl.attribs[id] =
                   {[index |-> 0, size |-> 3, stride |-> 20, pointer |-> 0, buffer |-> vb],
                    [index |-> 1, size |-> 2, stride |-> 20, pointer |-> 12, buffer |-> vb]}
            /\ gl.enabled[id] = {0, 1}
            /\ gl.element[id] = ib
            /\ gl.vao = 0

\* The second drawable built: a quad of four vertices and six indices.
C14_Witness ==
    /\ IsCreateVAOFromData(last) /\ last.exc = <<>> /\ ~crashed
    /\ last.size = 4 /\ last.was = 6
    /\ last.ret = 2
    /\ Len(vas) = 2
    /\ ibs[vas[2].mp_ib].m_IndexCount = 6

\* ------------------------------- specification: the geometry helpers
\* One helper is called once on a vertex list (or an index list) a factory may
\* hold: value-initialised vertices, or vertices already written.
MaxVertices == 4

\* n vertices already written, each with values of its own.
WrittenList(n) == [i \in 1..n |-> [position |-> <<i, i, i>>, texture |-> <<-i, -i>>]]

StartLists ==
    {VertexList(n) : n \in 0..MaxVertices} \cup {WrittenList(n) : n \in 1..MaxVertices}

Offsets == (-2)..(MaxVertices + 1)

CoordLists == {<<>>, <<<<2, 2>>>>, TRIANGLE_TEXTURE_COORDS, QUAD_TEXTURE_COORDS}

\* Selectors into the eight-corner table of the cube.
SelectorLists == {<<>>, <<7>>, <<0, 1, 2>>, <<1, 5, 6, 2>>}

StartIndexLists == {<<>>, <<9, 8, 7>>}

FaceCounts == (-1)..3

FaceOffsets == {0, 4}

NoHelperCall ==
    [op |-> "", offset |-> 0, coords |-> <<>>, selectors |-> <<>>, faceCount |-> 0,
     exc |-> <<>>, oob |-> FALSE]

\* The list the helper was given by reference becomes what the helper left of
\* it; an access outside the list is undefined: the program crashes there or
\* goes on (ub).  last records the call's arguments and what it threw.
CommitGeometry(g, ub, op, offset, coords, selectors) ==
    /\ vertexList' = g.vertices
    /\ crashed' = (g.oob /\ ub = "crash")
    /\ last' = [op |-> op, offset |-> offset, coords |-> coords, selectors |-> selectors,
                faceCount |-> 0, exc |-> g.exc, oob |-> g.oob]
    /\ UNCHANGED <<gl, vbs, ibs, vas, shapeCache, indexList, objects, activeIndex>>

CallAssignTextureCoords(offset, coords, ub) ==
    /\ last.op = ""
    /\ CommitGeometry(AssignTextureCoords(Geometry(vertexList), offset, coords), ub,
                      "ShapeFactory::AssignTextureCoords", offset, coords, <<>>)

CallDefineFace(offset, vertexIndices, textureCoords, ub) ==
    /\ last.op = ""
    /\ CommitGeometry(DefineFace(Geometry(vertexList), offset, CubePositions,
                                 vertexIndices, textureCoords), ub,
                      "ShapeFactory::DefineFace", offset, textureCoords, vertexIndices)

CallGenerateFaceIndices(faceCount, offset) ==
    /\ last.op = ""
    /\ indexList' = GenerateFaceIndices(indexList, faceCount, offset)
    /\ last' = [NoHelperCall EXCEPT !.op = "ShapeFactory::GenerateFaceIndices",
                                    !.offset = offset, !.faceCount = faceCount]
    /\ UNCHANGED <<gl, vbs, ibs, vas, shapeCache, crashed, vertexList, objects, activeIndex>>

InitGeom ==
    /\ gl = InitGL
    /\ vbs = <<>>
    /\ ibs = <<>>
    /\ vas = <<>>
    /\ shapeCache = <<>>
    /\ vertexList \in StartLists
    /\ objects = <<>>
    /\ activeIndex = 4
    /\ indexList \in StartIndexLists
    /\ crashed = FALSE
    /\ last = NoHelperCall

NextGeom ==
    \/ \E offset \in Offsets, coords \in CoordLists, ub \in {"proceed", "crash"} :
           CallAssignTextureCoords(offset, coords, ub)
    \/ \E offset \in Offsets, vertexIndices \in SelectorLists, textureCoords \in CoordLists,
          ub \in {"proceed", "crash"} :
           CallDefineFace(offset, vertexIndices, textureCoords, ub)
    \/ \E faceCount \in FaceCounts, offset \in FaceOffsets :
           CallGenerateFaceIndices(faceCount, offset)

SpecGeom == InitGeom /\ [][NextGeom]_vars

\* Vertex slot k (0-based) of a list.
Slot(list, k) == list[k + 1]

\* C15: for every offset >= 0, AssignTextureCoords throws its out-of-range
\* error exactly when offset + len(coords) > len(vertices), and then leaves the
\* list as it was; otherwise vertex offset+i gets texture coordinate coords[i]
\* for every i, and every position and every vertex outside the range stay as
\* they were.
C15_AssignTextureCoordsInRange ==
    [][(last'.op = "ShapeFactory::AssignTextureCoords" /\ last'.offset >= 0) =>
           LET offset == last'.offset
               coords == last'.coords
               thrown == last'.exc # <<>>
           IN  /\ thrown <=> (offset + Len(coords) > Len(vertexList))
               /\ thrown =>
                      /\ last'.exc = GrafException(<<"Texture coords size exceeds vertex list size">>)
                      /\ vertexList' = vertexList
               /\ ~thrown =>
                      /\ Len(vertexList') = Len(vertexList)
                      /\ ~last'.oob /\ ~crashed'
                      /\ \A k \in 0..(Len(vertexList) - 1) :
                             /\ Slot(vertexList', k).position = Slot(vertexList, k).position
                             /\ Slot(vertexList', k).texture =
                                    IF k \in offset..(offset + Len(coords) - 1)
                                    THEN coords[k - offset + 1]
                                    ELSE Slot(vertexList, k).texture
      ]_vars

\* A triangle's coordinates applied from slot 1 of four written vertices: slots
\* 1..3 carry them, slot 0 keeps its own.
C15_Witness ==
    /\ last.op = "ShapeFactory::AssignTextureCoords"
    /\ last.offset = 1 /\ last.coords = TRIANGLE_TEXTURE_COORDS
    /\ last.exc = <<>>
    /\ Len(vertexList) = 4
    /\ Slot(vertexList, 0) = [position |-> <<1, 1, 1>>, texture |-> <<-1, -1>>]
    /\ Slot(vertexList, 1) = [position |-> <<2, 2, 2>>, texture |-> <<1, 2>>]
    /\ Slot(vertexList, 3) = [position |-> <<4, 4, 4>>, texture |-> <<2, 0>>]

\* C16: for every offset >= 0 and every pair of a selector list and a
\* texture-coordinate list, of equal or of different lengths, DefineFace
\* changes only the vertices of [offset, offset + len(selectors)), and when it
\* throws its out-of-range error the list is as it was before the call.
C16_DefineFaceConfined ==
    [][(last'.op = "ShapeFactory::DefineFace" /\ last'.offset >= 0) =>
           /\ Len(vertexList') = Len(vertexList)
           /\ \A k \in 0..(Len(vertexList) - 1) :
                  k \notin last'.offset..(last'.offset + Len(last'.selectors) - 1) =>
                      Slot(vertexList', k) = Slot(vertexList, k)
           /\ last'.exc # <<>> => vertexList' = vertexList
      ]_vars

\* C17: GenerateFaceIndices(indices, N, offset) leaves the indices already in
\* the list where they are and appends exactly 6*N after them: face i gives
\* the triangles (offset+4i, offset+4i+2, offset+4i+1) and
\* (offset+4i, offset+4i+3, offset+4i+2); with N <= 0 nothing is appended.
C17_FaceIndicesAppended ==
    [][last'.op = "ShapeFactory::GenerateFaceIndices" =>
           LET N == IF last'.faceCount > 0 THEN last'.faceCount ELSE 0
               before == Len(indexList)
               base(i) == last'.offset + 4 * i
           IN  /\ Len(indexList') = before + 6 * N
               /\ SubSeq(indexList', 1, before) = indexList
               /\ \A i \in 0..(N - 1) :
                      SubSeq(indexList', before + 6 * i + 1, before + 6 * i + 6) =
                          <<base(i), base(i) + 2, base(i) + 1,
                            base(i), base(i) + 3, base(i) + 2>>
               /\ last'.faceCount <= 0 => indexList' = indexList
      ]_vars

\* Two faces from vertex 4 on, appended to a list that held three indices.
C17_Witness ==
    /\ last.op = "ShapeFactory::GenerateFaceIndices"
    /\ last.faceCount = 2 /\ last.offset = 4
    /\ indexList = <<9, 8, 7, 4, 6, 5, 4, 7, 6, 8, 10, 9, 8, 11, 10>>

\* ------------------------------------- specification: the shape factories
\* A factory's createShape is called directly, once, on a fresh graphics
\* context: a circle factory of any angle step, or one of the fixed shapes.
\* vertexList and indexList keep the lists it handed to createVAOFromData.
MaxAngleStep == 120

AngleSteps == 1..MaxAngleStep

FixedShapes == {Square, Cube, Pyramid, Frustum}

\* createShape of a factory that built vertices g and the index list indices.
CallFactory(g, indices, shapeType, m_angles) ==
    /\ last = NoCall
    /\ g.exc = <<>>
    /\ \E env \in NoEnv :
       \E r \in {createVAOFromData(Machine(env), g.vertices, indices)} :
           /\ gl' = r.gl
           /\ vbs' = r.vbs
           /\ ibs' = r.ibs
           /\ vas' = r.vas
           /\ crashed' = r.crashed
           /\ last' = [NoCall EXCEPT !.op = FactoryName(shapeType), !.kind = shapeType,
                                     !.size = m_angles, !.exc = r.exc, !.calls = r.calls,
                                     !.ret = r.ret]
    /\ vertexList' = g.vertices
    /\ indexList' = indices
    /\ UNCHANGED <<shapeCache, objects, activeIndex>>

CallCircleFactory(m_angles) ==
    CallFactory(CircleVertices(m_angles), CircleIndices(m_angles), Circle, m_angles)

CallFixedFactory(shapeType) ==
    CallFactory(FactoryVertices(shapeType), FactoryIndices(shapeType), shapeType, 0)

InitShapes == InitData

NextShapes ==
    \/ \E m_angles \in AngleSteps : CallCircleFactory(m_angles)
    \/ \E shapeType \in FixedShapes : CallFixedFactory(shapeType)

SpecShapes == InitShapes /\ [][NextShapes]_vars

\* The factory of shapeType has built its lists and created its shape.
Built(shapeType) == last.op = FactoryName(shapeType) /\ last.exc = <<>> /\ last.ret # NULL

\* Triangle i (0-based) of an index list.
Triangle(indices, i) == SubSeq(indices, 3 * i + 1, 3 * i + 3)

\* C18: for an angle step a with 1 <= a <= 120 the circle factory builds
\* n = 360 div a vertices and 3*(n-2) indices; triangle i is (0, i+2, i+1), so
\* every triangle includes vertex 0 and every index lies in [0, n-1]; a = 10
\* gives 36 vertices and 102 indices.
C18_CircleIsFan ==
    (last.op = FactoryName(Circle) /\ last.size \in 1..120) =>
        LET n == 360 \div last.size
        IN  /\ Built(Circle)
            /\ Len(vertexList) = n
            /\ Len(indexList) = 3 * (n - 2)
            /\ \A i \in 0..(n - 3) :
                   /\ Triangle(indexList, i) = <<0, i + 2, i + 1>>
                   /\ 0 \in {Triangle(indexList, i)[j] : j \in 1..3}
            /\ \A k \in 1..Len(indexList) : indexList[k] \in 0..(n - 1)
            /\ last.size = 10 => Len(vertexList) = 36 /\ Len(indexList) = 102

\* The registered step of 10 degrees: 36 vertices, the last triangle (0, 35, 34).
C18_Witness ==
    /\ Built(Circle)
    /\ last.size = 10
    /\ Len(vertexList) = 36
    /\ Len(indexList) = 102
    /\ Triangle(indexList, 33) = <<0, 35, 34>>

\* The positions of the vertices triangle i of the index list draws.
TrianglePositions(i) ==
    {Slot(vertexList, Triangle(indexList, i)[j]).position : j \in 1..3}

\* Coordinates are kept in halves: 1 stands for 0.5, -2 for -1.0.
SquareCorners == {<<x, y, -2>> : x \in {-1, 1}, y \in {-1, 1}}

\* C19: the square factory builds exactly 6 vertices and the indices 0..5; all
\* vertices lie at z = -1 on the four corners (+-0.5, +-0.5); the triangles
\* (0,1,2) and (3,4,5) share the diagonal from top-left to bottom-right and
\* between them use each of the four corners; a corner that occurs twice has
\* the same texture coordinates both times.
C19_SquareIsTwoTriangles ==
    last.op = FactoryName(Square) =>
        /\ Built(Square)
        /\ Len(vertexList) = 6
        /\ indexList = <<0, 1, 2, 3, 4, 5>>
        /\ \A k \in 0..5 : Slot(vertexList, k).position[3] = -2
        /\ {Slot(vertexList, k).position : k \in 0..5} = SquareCorners
        /\ Triangle(indexList, 0) = <<0, 1, 2>>
        /\ Triangle(indexList, 1) = <<3, 4, 5>>
        /\ TrianglePositions(0) \cap TrianglePositions(1) = {<<-1, 1, -2>>, <<1, -1, -2>>}
        /\ TrianglePositions(0) \cup TrianglePositions(1) = SquareCorners
        /\ \A j, k \in 0..5 :
               Slot(vertexList, j).position = Slot(vertexList, k).position =>
                   Slot(vertexList, j).texture = Slot(vertexList, k).texture

\* The square is built: vertices 2 and 3 are the bottom-right corner, 0 and 5
\* the top-left one, each pair with one texture coordinate.
C19_Witness ==
    /\ Built(Square)
    /\ Slot(vertexList, 2) = [position |-> <<1, -1, -2>>, texture |-> <<2, 0>>]
    /\ Slot(vertexList, 3) = Slot(vertexList, 2)
    /\ Slot(vertexList, 0) = [position |-> <<-1, 1, -2>>, texture |-> <<0, 2>>]
    /\ Slot(vertexList, 5) = Slot(vertexList, 0)

\* ----------------------------------------------------- solids, by geometry
Minus(p, q) == <<p[1] - q[1], p[2] - q[2], p[3] - q[3]>>

Cross(u, v) ==
    <<u[2] * v[3] - u[3] * v[2], u[3] * v[1] - u[1] * v[3], u[1] * v[2] - u[2] * v[1]>>

Dot(u, v) == u[1] * v[1] + u[2] * v[2] + u[3] * v[3]

\* The corners a position table holds.
Corners(positions) == {positions[k] : k \in DOMAIN positions}

\* Four corners span a face plane of the solid: they lie in one plane and every
\* other corner lies strictly on one and the same side of it.
IsFacePlane(S, C) ==
    /\ Cardinality(S) = 4
    /\ \E a, b, c \in S :
           LET n == Cross(Minus(b, a), Minus(c, a))
           IN  /\ n # <<0, 0, 0>>
               /\ \A d \in S : Dot(n, Minus(d, a)) = 0
               /\ \/ \A p \in C \ S : Dot(n, Minus(p, a)) > 0
                  \/ \A p \in C \ S : Dot(n, Minus(p, a)) < 0

FacePlanes(C) == {S \in SUBSET C : IsFacePlane(S, C)}

\* Two corners are adjacent when an edge joins them: two face planes meet there.
Adjacent(p, q, C) ==
    p # q /\ Cardinality({S \in FacePlanes(C) : p \in S /\ q \in S}) = 2

\* The positions written to the four slots of face f (0-based).
FaceCorners(f) == [j \in 1..4 |-> Slot(vertexList, 4 * f + j - 1).position]

FaceCornerSet(f) == {FaceCorners(f)[j] : j \in 1..4}

\* The lists built are a solid of six quads over the corners of positions.
IsSixQuadSolid(positions) ==
    LET C == Corners(positions)
    IN  /\ Cardinality(C) = 8
        /\ Len(vertexList) = 24
        /\ Len(indexList) = 36
        /\ indexList = GenerateFaceIndices(<<>>, 6, 0)
        /\ Cardinality(FacePlanes(C)) = 6
        /\ \A f \in 0..5 :
               /\ FaceCornerSet(f) \subseteq C
               /\ Cardinality(FaceCornerSet(f)) = 4
               /\ FaceCornerSet(f) \in FacePlanes(C)
               /\ \A j \in 1..4 :
                      Adjacent(FaceCorners(f)[j], FaceCorners(f)[(j % 4) + 1], C)
        /\ \A S \in FacePlanes(C) : Cardinality({f \in 0..5 : FaceCornerSet(f) = S}) = 1
        /\ \A p \in C : Cardinality({f \in 0..5 : p \in FaceCornerSet(f)}) = 3

\* C20: the cube factory and the frustum factory write all 24 vertex slots as
\* 6 faces of 4 vertices and the 36 indices of GenerateFaceIndices(6); each
\* face has four distinct corners of the 8-corner table on one face plane of
\* the solid, in perimeter order (cyclically consecutive corners adjacent);
\* each of the six face planes is used by exactly one face and each corner
\* appears in exactly three faces.
C20_SolidsAreSixQuads ==
    /\ last.op = FactoryName(Cube) => Built(Cube) /\ IsSixQuadSolid(CubePositions)
    /\ last.op = FactoryName(Frustum) => Built(Frustum) /\ IsSixQuadSolid(FrustumPositions)

\* The frustum is built: its third face is the back (corners 5, 4, 7, 6), its
\* last the top (corners 0, 1, 5, 4).
C20_Witness ==
    /\ Built(Frustum)
    /\ FaceCorners(2) = <<FrustumPositions[6], FrustumPositions[5],
                          FrustumPositions[8], FrustumPositions[7]>>
    /\ FaceCorners(5) = <<FrustumPositions[1], FrustumPositions[2],
                          FrustumPositions[6], FrustumPositions[5]>>
    /\ Triangle(indexList, 11) = <<20, 23, 22>>

\* ------------------------------------------------------------ the pyramid
Apex == PyramidPositions[1]

BaseCorners == Corners(PyramidPositions) \ {Apex}

\* Two base corners joined by an edge of the base: they differ in one coordinate.
BaseEdge(p, q) == Cardinality({k \in 1..3 : p[k] # q[k]}) = 1

BaseEdges == {e \in SUBSET BaseCorners : \E p, q \in e : e = {p, q} /\ BaseEdge(p, q)}

\* The positions written to slots from..to.
SlotPositions(from, to) == {Slot(vertexList, k).position : k \in from..to}

\* C21: the pyramid factory writes all 16 vertex slots, four 3-vertex side
\* faces at offsets 0, 3, 6, 9 and one 4-vertex base at offset 12, and 18
\* indices forming 6 triangles; each of the first four triangles is the apex and
\* two adjacent base corners, each base edge belongs to exactly one side face,
\* and the last two triangles (12,13,14) and (12,14,15) use only the four base
\* corners and share one diagonal.
C21_PyramidIsFourSidesAndBase ==
    last.op = FactoryName(Pyramid) =>
        /\ Built(Pyramid)
        /\ Len(vertexList) = 16
        /\ Len(indexList) = 18
        /\ SlotPositions(0, 15) \subseteq Corners(PyramidPositions)
        /\ Cardinality(BaseEdges) = 4
        /\ \A f \in 0..3 :
               /\ Triangle(indexList, f) = <<3 * f, 3 * f + 1, 3 * f + 2>>
               /\ Apex \in TrianglePositions(f)
               /\ TrianglePositions(f) \ {Apex} \in BaseEdges
        /\ \A e \in BaseEdges :
               Cardinality({f \in 0..3 : TrianglePositions(f) \ {Apex} = e}) = 1
        /\ SlotPositions(12, 15) = BaseCorners
        /\ Triangle(indexList, 4) = <<12, 13, 14>>
        /\ Triangle(indexList, 5) = <<12, 14, 15>>
        /\ TrianglePositions(4) \cup TrianglePositions(5) = BaseCorners
        /\ Cardinality(TrianglePositions(4) \cap TrianglePositions(5)) = 2
        /\ TrianglePositions(4) \cap TrianglePositions(5) \notin BaseEdges

\* The pyramid is built: its left face joins the apex with the back-left and
\* the front-left corner, the base starts at the front-left corner.
C21_Witness ==
    /\ Built(Pyramid)
    /\ SlotPositions(9, 11) = {Apex, PyramidPositions[5], PyramidPositions[2]}
    /\ Slot(vertexList, 12).position = PyramidPositions[2]
    /\ Triangle(indexList, 5) = <<12, 14, 15>>

\* ---------------------------------------------------------- the demo scene
\* struct ObjectData.  Lengths are kept in tenths (the arrow keys move by
\* 0.1f), the angle in hundredths (a frame turns by 0.01f); a texture is known
\* by whether the texture manager holds it.
ObjectData(x, y, texture, shape) ==
    [position |-> <<x, y, -30>>, angle |-> 0, texture |-> texture, shape |-> shape]

\* The 3x3 grid main builds when nothing was loaded; every object gets one of
\* the textures loaded before, and the default shape.
DefaultObjects ==
    <<ObjectData(-20, 20, "loaded", Cube), ObjectData(0, 20, "loaded", Cube),
      ObjectData(20, 20, "loaded", Cube),
      ObjectData(-20, 0, "loaded", Cube), ObjectData(0, 0, "loaded", Cube),
      ObjectData(20, 0, "loaded", Cube),
      ObjectData(-20, -20, "loaded", Cube), ObjectData(0, -20, "loaded", Cube),
      ObjectData(20, -20, "loaded", Cube)>>

\* An array element of objectdatas.json: the six members, and whether each
\* holds a value of the type get<>() asks for.
Item(x, y, texture, shape_type, typed) ==
    [position_x |-> x, position_y |-> y, position_z |-> -30, angle |-> 0,
     texture |-> texture, shape_type |-> shape_type, typed |-> typed]

\* obj of the loop body: static_cast keeps any int as the shape.
ObjectOfItem(item) ==
    [position |-> <<item.position_x, item.position_y, item.position_z>>,
     angle |-> item.angle, texture |-> item.texture, shape |-> item.shape_type]

\* objectdatas.json: absent (cannot be opened), garbage (not JSON), or a JSON
\* array of items.
JsonFile(items) == [state |-> "json", items |-> items]

NoFile(state) == [state |-> state, items |-> <<>>]

\* The file cannot be opened, or is not JSON: no object.  Otherwise objects
\* are pushed until an item's get<>() throws, which ends the loop in the catch.
loadObjectsFromJson(file) ==
    IF file.state # "json"
    THEN <<>>
    ELSE LET untyped == {i \in DOMAIN file.items : ~file.items[i].typed}
             n == IF untyped = {} THEN Len(file.items) ELSE SetMin(untyped) - 1
         IN  [i \in 1..n |-> ObjectOfItem(file.items[i])]

\* objects of main once the file was read.
MainObjects(file) ==
    IF loadObjectsFromJson(file) = <<>> THEN DefaultObjects ELSE loadObjectsFromJson(file)

\* The files the bounded model starts from.
Files ==
    {NoFile("absent"), NoFile("garbage"),
     JsonFile(<<Item(0, 0, "loaded", Cube, TRUE)>>),
     JsonFile(<<Item(0, 0, "loaded", Frustum, TRUE), Item(10, 0, "loaded", 5, TRUE)>>),
     JsonFile(<<Item(0, 0, "loaded", 5, TRUE), Item(10, 0, "loaded", Cube, TRUE)>>),
     JsonFile(<<Item(0, 0, "missing", Cube, TRUE), Item(10, 0, "loaded", Pyramid, TRUE)>>),
     JsonFile(<<Item(0, 0, "loaded", Square, TRUE), Item(10, 0, "loaded", Circle, TRUE),
                Item(20, 0, "loaded", Cube, FALSE), Item(30, 0, "loaded", Cube, TRUE)>>)}

GLFW_RELEASE == 0
GLFW_PRESS == 1
GLFW_REPEAT == 2
GLFW_KEY_SPACE == 32
GLFW_KEY_0 == 48
GLFW_KEY_8 == 56
GLFW_KEY_A == 65
GLFW_KEY_RIGHT == 262
GLFW_KEY_LEFT == 263
GLFW_KEY_DOWN == 264
GLFW_KEY_UP == 265

\* The chain were its Square branch to lead to Pyramid.
ShapeAfterSpace_SkipsCircle(shape) ==
    IF shape = Cube THEN Square
    ELSE IF shape = Square THEN Pyramid
    ELSE IF shape = Circle THEN Pyramid
    ELSE IF shape = Pyramid THEN Frustum
    ELSE IF shape = Frustum THEN Cube
    ELSE shape

\* The Space branch: the if / else if chain over the shape.
ShapeAfterSpace(shape) ==
    IF shape = Cube THEN Square
    ELSE IF shape = Square THEN Circle
    ELSE IF shape = Circle THEN Pyramid
    ELSE IF shape = Pyramid THEN Frustum
    ELSE IF shape = Frustum THEN Cube
    ELSE shape

\* The keys whose branch reads or writes objects[activeIndex].
ObjectKeys == {GLFW_KEY_UP, GLFW_KEY_DOWN, GLFW_KEY_LEFT, GLFW_KEY_RIGHT, GLFW_KEY_SPACE}

\* The object a press of key leaves in place of obj.
ObjectAfterKey(obj, key) ==
    [obj EXCEPT !.position[2] = IF key = GLFW_KEY_UP THEN @ + 1
                                ELSE IF key = GLFW_KEY_DOWN THEN @ - 1 ELSE @,
                !.position[1] = IF key = GLFW_KEY_LEFT THEN @ - 1
                                ELSE IF key = GLFW_KEY_RIGHT THEN @ + 1 ELSE @,
                !.shape = IF key = GLFW_KEY_SPACE THEN ShapeAfterSpace(@) ELSE @]

\* The keyboard callback on scene d = [objects, activeIndex, oob].  vector's
\* operator[] is unchecked: an index outside the list is an access outside it.
KeyboardFunction(d, key, action) ==
    IF action # GLFW_PRESS THEN d
    ELSE LET selected == IF key >= GLFW_KEY_0 /\ key <= GLFW_KEY_8
                         THEN key - GLFW_KEY_0 ELSE d.activeIndex
         IN  IF key \notin ObjectKeys
             THEN [d EXCEPT !.activeIndex = selected]
             ELSE IF selected \notin 0..(Len(d.objects) - 1)
             THEN [d EXCEPT !.activeIndex = selected, !.oob = TRUE]
             ELSE [d EXCEPT !.activeIndex = selected,
                            !.objects[selected + 1] = ObjectAfterKey(@, key)]

\* ------------------------------------------- specification: the keyboard
\* The bounded model delivers at most MaxPresses press events.
MaxPresses == 5

Keys == {GLFW_KEY_0 + 1, GLFW_KEY_8, GLFW_KEY_UP, GLFW_KEY_DOWN, GLFW_KEY_LEFT,
         GLFW_KEY_RIGHT, GLFW_KEY_SPACE, GLFW_KEY_A}

KeyActions == {GLFW_RELEASE, GLFW_PRESS, GLFW_REPEAT}

NoKeyEvent == [op |-> "", key |-> 0, action |-> 0, oob |-> FALSE, presses |-> 0]

\* last records the event, whether the handler accessed a slot outside the
\* object list (undefined: the program crashes there or goes on, ub), and how
\* many presses were delivered so far.
CallKeyboardFunction(key, action, ub) ==
    /\ ~crashed
    /\ action = GLFW_PRESS => last.presses < MaxPresses
    /\ \E d \in {KeyboardFunction([objects |-> objects, activeIndex |-> activeIndex,
                                   oob |-> FALSE], key, action)} :
           /\ objects' = d.objects
           /\ activeIndex' = d.activeIndex
           /\ crashed' = (d.oob /\ ub = "crash")
           /\ last' = [op |-> "KeyboardFunction", key |-> key, action |-> action,
                       oob |-> d.oob,
                       presses |-> IF action = GLFW_PRESS THEN last.presses + 1
                                   ELSE last.presses]
    /\ UNCHANGED <<gl, vbs, ibs, vas, shapeCache, vertexList, indexList>>

InitKeys ==
    /\ gl = InitGL
    /\ vbs = <<>>
    /\ ibs = <<>>
    /\ vas = <<>>
    /\ shapeCache = <<>>
    /\ vertexList = <<>>
    /\ indexList = <<>>
    /\ \E file \in Files : objects = MainObjects(file)
    /\ activeIndex = 4
    /\ crashed = FALSE
    /\ last = NoKeyEvent

\* What an event may end in: only an access outside the list is undefined.
KeyOutcomes(key, action) ==
    IF KeyboardFunction([objects |-> objects, activeIndex |-> activeIndex, oob |-> FALSE],
                        key, action).oob
    THEN {"proceed", "crash"}
    ELSE {"proceed"}

NextKeys ==
    \E key \in Keys, action \in KeyActions :
        \E ub \in KeyOutcomes(key, action) : CallKeyboardFunction(key, action, ub)

SpecKeys == InitKeys /\ [][NextKeys]_vars

ShapeCycle == <<Cube, Square, Circle, Pyramid, Frustum>>

ArrowKeys == {GLFW_KEY_UP, GLFW_KEY_DOWN, GLFW_KEY_LEFT, GLFW_KEY_RIGHT}

\* Where an arrow key moves a position, in tenths.
ArrowMove(key) ==
    CASE key = GLFW_KEY_UP    -> <<0, 1, 0>>
      [] key = GLFW_KEY_DOWN  -> <<0, -1, 0>>
      [] key = GLFW_KEY_LEFT  -> <<-1, 0, 0>>
      [] key = GLFW_KEY_RIGHT -> <<1, 0, 0>>

\* C22: a key event changes only the currently selected object: a Space press
\* advances that object's shape one step along the cycle Cube -> Square ->
\* Circle -> Pyramid -> Frustum -> Cube (five presses return it to its starting
\* kind), an arrow press changes only its position, every other object is
\* unchanged, and an event whose action is not a press changes nothing.  The
\* selected object is the one the selected index names in the object list.
C22_KeyChangesSelectedObjectOnly ==
    [][last'.op = "KeyboardFunction" =>
           /\ last'.action # GLFW_PRESS =>
                  objects' = objects /\ activeIndex' = activeIndex /\ ~crashed'
           /\ \A i \in 1..5 : ShapeAfterSpace(ShapeCycle[i]) = ShapeCycle[(i % 5) + 1]
           /\ \A shape \in Factories :
                  ShapeAfterSpace(ShapeAfterSpace(ShapeAfterSpace(
                      ShapeAfterSpace(ShapeAfterSpace(shape))))) = shape
           /\ (last'.action = GLFW_PRESS /\ activeIndex' \in 0..(Len(objects) - 1)) =>
                  LET before == objects[activeIndex' + 1]
                      after  == objects'[activeIndex' + 1]
                  IN  /\ ~crashed'
                      /\ Len(objects') = Len(objects)
                      /\ \A i \in 1..Len(objects) :
                             i # activeIndex' + 1 => objects'[i] = objects[i]
                      /\ after.angle = before.angle /\ after.texture = before.texture
                      /\ last'.key = GLFW_KEY_SPACE =>
                             /\ after.position = before.position
                             /\ \A i \in 1..5 : before.shape = ShapeCycle[i] =>
                                                    after.shape = ShapeCycle[(i % 5) + 1]
                      /\ last'.key \in ArrowKeys =>
                             /\ after.shape = before.shape
                             /\ Minus(after.position, before.position) = ArrowMove(last'.key)
                      /\ last'.key \notin ArrowKeys \cup {GLFW_KEY_SPACE} => after = before
      ]_vars

\* Five Space presses on the centre object of the default grid, and nothing
\* else: it is a Cube again, where it was.
C22_Witness ==
    /\ last.op = "KeyboardFunction"
    /\ last.key = GLFW_KEY_SPACE /\ last.action = GLFW_PRESS
    /\ last.presses = 5
    /\ activeIndex = 4
    /\ objects = DefaultObjects

\* ------------------------------- specification: Create and attributes, mixed
\* One vertex array object on which Create and AddVertexAttribute are called
\* in any order; Create may be called again on an object that has a name.
InitStride == InitAttr

NextStride ==
    \/ \E v \in DOMAIN vas, env \in EnvsOf(2, {"GL_OUT_OF_MEMORY"}, {0}, {"proceed"}) :
           CallVAOCreate(v, env)
    \/ \E v \in DOMAIN vas, type \in AttributeTypes, env \in NoEnv :
           Len(vas[v].m_attributes) < MaxAttrs /\ CallVAOAddVertexAttribute(v, type, env)

SpecStride == InitStride /\ [][NextStride]_vars

\* C23: after any sequence of Create and AddVertexAttribute calls on one
\* vertex array, Create after attributes were added included, the stored
\* stride is the sum of the byte sizes of the attributes in its list.
C23_StrideIsSumOfAttributes ==
    \A v \in DOMAIN vas : vas[v].m_stride = SumBytes(vas[v].m_attributes)

\* The GPU names of the buffers and of the vertex arrays the cached drawables hold.
CachedBufferNames ==
    UNION {{vbs[vas[shapeCache[k]].mp_vb].m_id, ibs[vas[shapeCache[k]].mp_ib].m_id} :
           k \in DOMAIN shapeCache}

CachedArrayNames == {vas[shapeCache[k]].m_id : k \in DOMAIN shapeCache}

\* C24: after any sequence of createShape requests to the manager, requests
\* whose factory fails partway included, every GPU buffer and vertex array that
\* is allocated and not deleted is reachable from a cached drawable: at most
\* two buffers and one vertex array per cached kind.
C24_NoUnreachableGpuObjects ==
    /\ gl.buffers \subseteq CachedBufferNames
    /\ gl.arrays \subseteq CachedArrayNames
    /\ Cardinality(gl.buffers) <= 2 * Cardinality(DOMAIN shapeCache)
    /\ Cardinality(gl.arrays) <= Cardinality(DOMAIN shapeCache)

\* A factory the manager registers has built its lists: one of the fixed
\* shapes, or the circle of the registered angle step.
BuiltByRegisteredFactory ==
    /\ last.op # ""
    /\ last.kind = Circle => last.size = CircleAngles

\* C25: for each of the five shapes the manager produces (the circle with step
\* 10), every value of the index list is a vertex slot (0 <= index < vertex
\* count), the length of the index list is a multiple of 3, and every vertex
\* slot is referenced by at least one index.
C25_IndicesCoverVertexSlots ==
    BuiltByRegisteredFactory =>
        /\ Built(last.kind)
        /\ \A k \in 1..Len(indexList) : indexList[k] \in 0..(Len(vertexList) - 1)
        /\ Len(indexList) % 3 = 0
        /\ \A slot \in 0..(Len(vertexList) - 1) :
               \E k \in 1..Len(indexList) : indexList[k] = slot

\* The registered circle is built: 36 slots, the last of them referenced by
\* the last triangle, slot 1 by the first.
C25_Witness ==
    /\ BuiltByRegisteredFactory
    /\ Built(Circle)
    /\ Len(vertexList) = 36
    /\ indexList[101] = 35
    /\ indexList[3] = 1

\* ------------------------------------------------------------- winding
RECURSIVE SumOfPositions(_)
SumOfPositions(S) ==
    IF S = {} THEN <<0, 0, 0>>
    ELSE LET p == CHOOSE q \in S : TRUE
             r == SumOfPositions(S \ {p})
         IN  <<p[1] + r[1], p[2] + r[2], p[3] + r[3]>>

\* The position of vertex slot k, scaled by n.
Scaled(n, p) == <<n * p[1], n * p[2], n * p[3]>>

\* Triangle i of the index list has its normal (Pb - Pa) x (Pc - Pa) pointing
\* away from the centre of the corners C (their mean; compared n-fold).
WoundOutward(i, C) ==
    LET Pa == Slot(vertexList, Triangle(indexList, i)[1]).position
        Pb == Slot(vertexList, Triangle(indexList, i)[2]).position
        Pc == Slot(vertexList, Triangle(indexList, i)[3]).position
    IN  Dot(Cross(Minus(Pb, Pa), Minus(Pc, Pa)),
            Minus(Scaled(Cardinality(C), Pa), SumOfPositions(C))) > 0

Solids == {Cube, Frustum, Pyramid}

SolidPositions(shapeType) ==
    CASE shapeType = Cube    -> CubePositions
      [] shapeType = Frustum -> FrustumPositions
      [] shapeType = Pyramid -> PyramidPositions

\* C26: in each of the three solids every triangle (a, b, c) of the index list
\* has its normal (Pb - Pa) x (Pc - Pa) pointing away from the solid's centre,
\* the frustum's top face and the pyramid's base included.
C26_TrianglesWoundOutward ==
    \A shapeType \in Solids :
        last.op = FactoryName(shapeType) =>
            \A i \in 0..((Len(indexList) \div 3) - 1) :
                WoundOutward(i, Corners(SolidPositions(shapeType)))

\* C27: for every signed offset, negative ones included, AssignTextureCoords
\* and DefineFace either throw their out-of-range error or access only vertex
\* slots of the list; they never read or write a slot outside it.
C27_NoAccessOutsideList ==
    last.op \in {"ShapeFactory::AssignTextureCoords", "ShapeFactory::DefineFace"} =>
        (last.exc # <<>> \/ ~last.oob)

\* C28: whenever the keyboard handler uses the selected index to reach an
\* object, 0 <= activeIndex < number of objects, for the default grid of nine
\* and for every list loaded from the saved file, lists of fewer than nine
\* entries and lists cut short by a parse error included.
C28_ActiveIndexInRange ==
    (last.op = "KeyboardFunction" /\ last.action = GLFW_PRESS /\ last.key \in ObjectKeys) =>
        /\ activeIndex \in 0..(Len(objects) - 1)
        /\ ~last.oob

\* The glBindVertexArray calls among calls, in order.
BindArrayCalls(calls) == SelectSeq(calls, LAMBDA c : c.fn = "glBindVertexArray")

\* C29: every call of DrawObject ends with no vertex array current, whether
\* the draw succeeded or a failure was caught inside it (texture not loaded,
\* graphics error on draw): a Bind made by DrawObject is followed by the
\* matching Unbind before it returns.
C29_DrawObjectUnbinds ==
    (last.op = "DrawObject" /\ ~crashed) =>
        /\ gl.vao = 0
        /\ BindArrayCalls(last.calls) # <<>> =>
               BindArrayCalls(last.calls)[Len(BindArrayCalls(last.calls))].x = 0

\* ------------------------------------------------------ the render callback
\* The for loop of the render callback from object i (1-based) on, on
\* r = [m, objects, drawn]: the active object turns, the manager is asked for
\* the object's shape (its throw leaves the loop) and DrawObject draws it.
\* drawn[i] is the number of glDrawElements calls issued for object i.
RECURSIVE RenderLoop(_, _, _)
RenderLoop(r, i, active) ==
    IF i > Len(r.objects) \/ Stopped(r.m)
    THEN r
    ELSE RenderLoop(
             CHOOSE n \in {IF Stopped(c)
                           THEN [r EXCEPT !.m = c,
                                          !.objects[i].angle =
                                              IF i - 1 = active THEN @ + 1 ELSE @]
                           ELSE [m |-> DrawObject(c, c.ret, r.objects[i].texture),
                                 objects |-> [r.objects EXCEPT ![i].angle =
                                                 IF i - 1 = active THEN @ + 1 ELSE @],
                                 drawn |-> Append(r.drawn,
                                     Len(DrawCalls(DrawObject(c, c.ret, r.objects[i].texture).calls))
                                         - Len(DrawCalls(c.calls)))] :
                           c \in {ShapeFactoryManager_createShape(r.m, r.objects[i].shape)}} :
                 TRUE,
             i + 1, active)

\* catch (const std::exception&) of the render callback.
CatchRenderError(r) ==
    IF r.m.crashed \/ r.m.exc = <<>> THEN r
    ELSE [r EXCEPT !.m = [Issue(r.m, GLCall("std::cerr", "Render error: ", 0, 0, 0, 0))
                             EXCEPT !.exc = <<>>]]

\* The render callback: clear, check, use the program, draw every object.
RenderFunction(m, objs, active) ==
    CatchRenderError(
        CHOOSE r \in {IF Stopped(c)
                      THEN [m |-> c, objects |-> objs, drawn |-> <<>>]
                      ELSE RenderLoop([m |-> Issue(c, GLCall("glUseProgram", "", 0, 0, 0, 0)),
                                       objects |-> objs, drawn |-> <<>>], 1, active) :
                      c \in {CheckGLError(Issue(m, GLCall("glClear", "", 0, 0, 0, 0)),
                                          "Clear buffers")}} : TRUE)

\* ---------------------------------------------- specification: the frames
\* The bounded model renders while no object has turned MaxFrames times.
MaxFrames == 3

\* The items of the scene files: known and unknown shapes, loaded and missing
\* textures.
SceneItems ==
    {Item(0, 0, texture, shape_type, TRUE) :
         texture \in TextureStates, shape_type \in {Cube, Square, 5}}

SceneFiles ==
    {NoFile("absent")} \cup {JsonFile(<<a>>) : a \in SceneItems}
        \cup {JsonFile(<<a, b>>) : a, b \in SceneItems}
        \cup {JsonFile(<<a, b, c>>) : a, b, c \in SceneItems}

\* The shapes of the scene the manager would have to build.
ShapesToBuild ==
    ({objects[i].shape : i \in DOMAIN objects} \cap Factories) \ DOMAIN shapeCache

\* last records what the frame caught, the calls it issued, whether a GL step
\* failed, and the draws per object.
CallRenderFunction(env) ==
    /\ ~crashed
    /\ \A i \in DOMAIN objects : objects[i].angle < MaxFrames
    /\ Cardinality(Names \ gl.buffers) >= 2 * Cardinality(ShapesToBuild)
    /\ Cardinality(Names \ gl.arrays) >= Cardinality(ShapesToBuild)
    /\ \E r \in {RenderFunction(Machine(env), objects, activeIndex)} :
           /\ gl' = r.m.gl
           /\ vbs' = r.m.vbs
           /\ ibs' = r.m.ibs
           /\ vas' = r.m.vas
           /\ shapeCache' = r.m.cache
           /\ crashed' = r.m.crashed
           /\ objects' = r.objects
           /\ last' = [op |-> "RenderFunction", calls |-> r.m.calls, fault |-> r.m.fault,
                       drawn |-> r.drawn]
    /\ UNCHANGED <<activeIndex, vertexList, indexList>>

InitFrames ==
    /\ gl = InitGL
    /\ vbs = <<>>
    /\ ibs = <<>>
    /\ vas = <<>>
    /\ shapeCache = <<>>
    /\ vertexList = <<>>
    /\ indexList = <<>>
    /\ \E file \in SceneFiles : objects = MainObjects(file)
    /\ activeIndex = 4
    /\ crashed = FALSE
    /\ last = [op |-> "", calls |-> <<>>, fault |-> 0, drawn |-> <<>>]

NextFrames ==
    \E env \in EnvsOf(1, {"GL_INVALID_OPERATION"}, {0}, {"proceed"}) : CallRenderFunction(env)

SpecFrames == InitFrames /\ [][NextFrames]_vars

\* C30: in every frame every object whose shape kind is registered and whose
\* texture is loaded is drawn exactly once, whatever fails for other objects of
\* the list: a failure to create or draw object i does not keep the objects
\* after i from being drawn in that frame.
C30_EveryDrawableObjectDrawn ==
    (last.op = "RenderFunction" /\ last.fault = 0 /\ ~crashed) =>
        \A i \in DOMAIN objects :
            (objects[i].shape \in Factories /\ objects[i].texture = "loaded") =>
                (i <= Len(last.drawn) /\ last.drawn[i] = 1)

====
